---- MODULE Spec2Model ----
(***************************************************************************)
(* A model of the perioperative AKI tool (src/src/aki_tool.py, with its    *)
(* duplicated variant src/src/tool_2.py).                                   *)
(*                                                                         *)
(* The state is a snapshot of the warehouse tables the tool queries for    *)
(* one patient (measurement, procedure_occurrence, person), the tool's     *)
(* surgical-concept set, and the result of the last call made on the tool. *)
(* For the procedure classifier the state also holds the concept table,    *)
(* the rows of the CPT range file and the four reference tables the        *)
(* constructor builds.  Each public method is one action.                  *)
(*                                                                         *)
(* Numbers.  Times are whole days.  A raw value_as_number is held in       *)
(* tenths of its unit.  A normalised creatinine is held in units of        *)
(* 1/8840 mg/dL, so that both "v mg/dL" (v*884) and "v umol/L / 88.4"      *)
(* (v*10) are exact integers and every comparison of the staging engine is *)
(* exact.  An eGFR is a rational <<numerator, denominator>>.               *)
(***************************************************************************)
EXTENDS Integers, Sequences, FiniteSets, TLC

VARIABLES
    measurement,               \* rows of the patient's measurement table
    procedure_occurrence,      \* rows of the patient's procedure_occurrence table
    person,                    \* the patient's person row
    all_surgical_concept_ids,  \* self.all_surgical_concept_ids
    concept,                   \* rows of the concept table
    cpt_ccs_mapping,           \* rows of the CPT range file, in file order
    icd10_code_to_category,    \* self.icd10_code_to_category
    cardiac_icd10_code_to_category_code,  \* self.cardiac_icd10_code_to_category_code
    ccs_num_label_to_text,     \* self.ccs_num_label_to_text
    cpt_to_ccs,                \* self.cpt_to_ccs
    ret                        \* the last call on the tool and what it returned

vars == <<measurement, procedure_occurrence, person, all_surgical_concept_ids,
          concept, cpt_ccs_mapping, icd10_code_to_category,
          cardiac_icd10_code_to_category_code, ccs_num_label_to_text, cpt_to_ccs, ret>>

(***************************************************************************)
(* Optional values: None is Python's None / SQL's NULL / pandas' NaN.      *)
(***************************************************************************)
None == <<>>
Some(x) == <<x>>
IsNone(o) == o = <<>>
Val(o) == o[1]

Max(a, b) == IF a >= b THEN a ELSE b
Min(a, b) == IF a <= b THEN a ELSE b

(***************************************************************************)
(* Bounds of the model.                                                    *)
(***************************************************************************)
MaxMeasurements == 3       \* measurement rows of the patient
MaxOtherProcedures == 2    \* procedures of the patient besides procedure 1
MaxRows == 2               \* rows of the CPT range file

(***************************************************************************)
(* Class constants of AKITool.                                             *)
(***************************************************************************)
SURGICAL_PROC_CONCEPT_ID == 4301351
SERUM_CREATININE_CONCEPT_IDS == {3016723, 3020564}
UNIT_SOURCE_VALUES_FOR_SERUM_CREATININE == {"mg/dL", "258797006", "umol/L"}
MALE_CONCEPT_ID == 45880669
BODY_HEIGHT_CONCEPT_ID == 3036277

(***************************************************************************)
(* Creatinine normalisation: the loop shared by get_highest_preop_-        *)
(* creatinine, get_preop_egfr and get_postop_creatinine.                   *)
(***************************************************************************)
CreatinineUnit == 8840                    \* 1.0 mg/dL in normalised units
MinCreatinine == (2 * CreatinineUnit) \div 10    \* 0.2
MaxCreatinine == 25 * CreatinineUnit             \* 25
Placeholder == -CreatinineUnit                   \* max_creatinine = -1.0

\* creatinine /= 88.4 for umol/L; mg/dL and 258797006 pass through.
Convert(row) ==
    IF row.unit_source_value = "umol/L"
    THEN Val(row.value_as_number) * 10
    ELSE Val(row.value_as_number) * 884

\* Mutant of NormalizeStep: the range filter applied to the raw value, before
\* the conversion.
NormalizeStep_filter_first(max_creatinine, row) ==
    IF row.unit_source_value # "umol/L"
       /\ row.unit_source_value \notin {"mg/dL", "258797006"}
    THEN max_creatinine
    ELSE IF Val(row.value_as_number) * 884 < MinCreatinine
            \/ Val(row.value_as_number) * 884 >= MaxCreatinine
         THEN max_creatinine
         ELSE Max(max_creatinine, Convert(row))

\* One iteration of the loop body: the new max_creatinine.
NormalizeStep(max_creatinine, row) ==
    IF row.unit_source_value # "umol/L"
       /\ row.unit_source_value \notin {"mg/dL", "258797006"}
    THEN max_creatinine
    ELSE LET creatinine == Convert(row)
         IN  IF creatinine < MinCreatinine \/ creatinine >= MaxCreatinine
             THEN max_creatinine
             ELSE Max(max_creatinine, creatinine)

\* The loop over the rows of a data frame, starting from max_creatinine = -1.0.
RECURSIVE NormalizeLoop(_, _)
NormalizeLoop(max_creatinine, rows) ==
    IF rows = {} THEN max_creatinine
    ELSE LET row == CHOOSE r \in rows : TRUE
         IN  NormalizeLoop(NormalizeStep(max_creatinine, row), rows \ {row})

\* if max_creatinine < 0.0: None
Normalize(rows) ==
    LET max_creatinine == NormalizeLoop(Placeholder, rows)
    IN  IF max_creatinine < 0 THEN None ELSE Some(max_creatinine)

(***************************************************************************)
(* The warehouse queries.                                                  *)
(***************************************************************************)
ProcedureRows(proc_id) ==
    {p \in procedure_occurrence : p.procedure_occurrence_id = proc_id}

\* The WHERE conditions every creatinine query shares.
IsCreatinineRow(m) ==
    /\ m.measurement_concept_id \in SERUM_CREATININE_CONCEPT_IDS
    /\ m.unit_source_value \in UNIT_SOURCE_VALUES_FOR_SERUM_CREATININE
    /\ ~IsNone(m.value_as_number)

\* measurement_datetime BETWEEN procedure_datetime - 60 DAY AND procedure_datetime
query_highest_preop_creatinine(proc_id) ==
    {m \in measurement :
        /\ IsCreatinineRow(m)
        /\ \E p \in ProcedureRows(proc_id) :
              /\ m.measurement_datetime >= p.procedure_datetime - 60
              /\ m.measurement_datetime <= p.procedure_datetime}

get_highest_preop_creatinine(proc_id) ==
    LET df_highest_preop_creatinine == query_highest_preop_creatinine(proc_id)
    IN  IF Cardinality(df_highest_preop_creatinine) = 0
        THEN None
        ELSE Normalize(df_highest_preop_creatinine)

(***************************************************************************)
(* get_preop_egfr.                                                         *)
(*                                                                         *)
(* Floating point is modelled in fixed point: a real x is the integer      *)
(* x * One, products are rounded to the nearest multiple of 1/One.  pow    *)
(* with a fractional exponent is tabulated (to 1/One) at the arguments the *)
(* creatinine values of this model produce.                                *)
(***************************************************************************)
One == 10000

\* a * b / d, rounded to nearest, without leaving 32 bits.
MulDiv(a, b, d) == (a \div d) * b + ((a % d) * b + d \div 2) \div d

\* <<base numerator, base denominator, exponent * 1000, pow(base, exponent) * One>>
PowTable ==
    { <<17680, 79560, -302, 15750>>,
      <<17680, 61880, -241, 13524>>,
      <<17700, 79560, -302, 15744>>,
      <<17700, 61880, -241, 13521>>,
      <<79560, 61880, -1200, 7397>>,
      <<88400, 79560, -1200, 8812>>,
      <<88400, 61880, -1200, 6518>>,
      <<106080, 79560, -1200, 7081>>,
      <<106080, 61880, -1200, 5237>>,
      <<114920, 79560, -1200, 6432>>,
      <<114920, 61880, -1200, 4758>>,
      <<123760, 79560, -1200, 5885>>,
      <<123760, 61880, -1200, 4353>>,
      <<132600, 79560, -1200, 5417>>,
      <<132600, 61880, -1200, 4007>>,
      <<167960, 79560, -1200, 4079>>,
      <<167960, 61880, -1200, 3017>>,
      <<176800, 79560, -1200, 3836>>,
      <<176800, 61880, -1200, 2837>>,
      <<256360, 79560, -1200, 2456>>,
      <<256360, 61880, -1200, 1817>>,
      <<265100, 79560, -1200, 2359>>,
      <<265100, 61880, -1200, 1745>>,
      <<265200, 79560, -1200, 2358>>,
      <<265200, 61880, -1200, 1744>>,
      <<265300, 79560, -1200, 2357>>,
      <<265300, 61880, -1200, 1743>>,
      <<442000, 79560, -1200, 1277>>,
      <<442000, 61880, -1200, 945>>,
      <<1769600, 79560, -1200, 242>>,
      <<1769600, 61880, -1200, 179>>,
      <<2201160, 79560, -1200, 186>>,
      <<2201160, 61880, -1200, 138>>,
      <<2209900, 79560, -1200, 185>>,
      <<2209900, 61880, -1200, 137>>,
      <<9938, 10000, 18000, 8941>>,
      <<9938, 10000, 40000, 7798>> }

\* pow(base, exponent): base a rational <<n, d>>, exponent in thousandths.
pow(base, exponent) ==
    IF base[1] = base[2] THEN One
    ELSE (CHOOSE e \in PowTable :
             e[1] = base[1] /\ e[2] = base[2] /\ e[3] = exponent)[4]

\* Python's round(): to the nearest integer, ties to the even one.
round(egfr) ==
    LET q == egfr[1] \div egfr[2]
        r == egfr[1] % egfr[2]
    IN  IF 2 * r < egfr[2] THEN q
        ELSE IF 2 * r > egfr[2] THEN q + 1
        ELSE IF q % 2 = 0 THEN q ELSE q + 1

\* FLOOR(FORMAT_DATE('%Y.%m%d%H%M%S', t) - FORMAT_DATE('%Y.%m%d%H%M%S', birth)):
\* whole years elapsed, in a calendar of 365-day years.
DaysPerYear == 365
AgeAt(t) == (t - person.birth_datetime) \div DaysPerYear

\* The body_height sub-query before "row_num = 1": the height measurements of
\* the procedure's visit.  A NULL visit_occurrence_id joins nothing.
body_height_rows(proc_id) ==
    {m \in measurement :
        /\ m.measurement_concept_id = BODY_HEIGHT_CONCEPT_ID
        /\ ~IsNone(m.value_as_number)
        /\ \E p \in ProcedureRows(proc_id) :
              /\ ~IsNone(p.visit_occurrence_id)
              /\ p.visit_occurrence_id = m.visit_occurrence_id}

\* The body_height the LEFT JOIN can bring: NULL when the sub-query is empty,
\* else the value of a row ranked first by measurement_datetime DESC (any of
\* them when several share the latest time).
body_heights(proc_id) ==
    IF body_height_rows(proc_id) = {} THEN {None}
    ELSE {m.value_as_number :
            m \in {x \in body_height_rows(proc_id) :
                      \A y \in body_height_rows(proc_id) :
                          y.measurement_datetime <= x.measurement_datetime}}

\* The rows query_preop_egfr can return: the pre-op creatinine rows joined to
\* person and (LEFT JOIN) to the body_height sub-query's row.
query_preop_egfr(proc_id) ==
    { [measurement_datetime |-> m.measurement_datetime,
       value_as_number |-> m.value_as_number,
       unit_source_value |-> m.unit_source_value,
       age |-> AgeAt(m.measurement_datetime),
       gender_concept_id |-> person.gender_concept_id,
       body_height |-> height] :
      m \in query_highest_preop_creatinine(proc_id), height \in body_heights(proc_id) }

\* The constants of the adult branch.
kappa(is_male) == IF is_male THEN 9 ELSE 7                \* 0.9, 0.7 (tenths)
alpha_exponent(is_male) == IF is_male THEN -302 ELSE -241  \* -0.302, -0.241
final_multiplier(is_male) == IF is_male THEN One ELSE 10100 \* 1.0, 1.01

\* 142 * pow(min(f, 1.0), alpha) * pow(max(f, 1.0), -1.2) * pow(0.9938, age) * m
\* with inner factor f = max_creatinine / k, as a rational over One.
ckd_epi(max_creatinine, age, k, alpha, multiplier) ==
    LET inner_factor == <<max_creatinine * 10, CreatinineUnit * k>>
        lower == IF inner_factor[1] < inner_factor[2] THEN inner_factor ELSE <<1, 1>>
        upper == IF inner_factor[1] > inner_factor[2] THEN inner_factor ELSE <<1, 1>>
        e1 == 142 * pow(lower, alpha)
        e2 == MulDiv(e1, pow(upper, -1200), One)
        e3 == MulDiv(e2, pow(<<9938, 10000>>, age * 1000), One)
    IN  <<MulDiv(e3, multiplier, One), One>>

\* 0.413 * height / max_creatinine, height in tenths of a cm.
schwartz(max_creatinine, height) ==
    <<413 * 884 * height, 1000 * max_creatinine>>

\* Mutant of egfr_result: the range test applied to the rounded value.
egfr_result_round_first(egfr) ==
    IF round(egfr) <= 0 \/ round(egfr) >= 300
    THEN None
    ELSE Some(round(egfr))

\* if egfr <= 0 or egfr >= 300: return None;  return round(egfr)
egfr_result(egfr) ==
    IF egfr[1] <= 0 \/ egfr[1] \div 300 >= egfr[2]
    THEN None
    ELSE Some(round(egfr))

\* Mutant of egfr_of: the adult branch taken for age > 18 only.
egfr_of_adult_after_18(max_creatinine, first) ==
    IF first.age > 18
    THEN LET is_male == first.gender_concept_id = MALE_CONCEPT_ID
         IN  egfr_result(ckd_epi(max_creatinine, first.age, kappa(is_male),
                                 alpha_exponent(is_male), final_multiplier(is_male)))
    ELSE IF IsNone(first.body_height)
         THEN None
         ELSE egfr_result(schwartz(max_creatinine, Val(first.body_height)))

\* The body of get_preop_egfr after the normalisation loop; first is
\* df_preop_egfr.iloc[0], the row the warehouse happened to return first.
egfr_of(max_creatinine, first) ==
    IF first.age >= 18
    THEN LET is_male == first.gender_concept_id = MALE_CONCEPT_ID
         IN  egfr_result(ckd_epi(max_creatinine, first.age, kappa(is_male),
                                 alpha_exponent(is_male), final_multiplier(is_male)))
    ELSE IF IsNone(first.body_height)
         THEN None
         ELSE egfr_result(schwartz(max_creatinine, Val(first.body_height)))

get_preop_egfr(proc_id, first) ==
    LET max_creatinine == NormalizeLoop(Placeholder, query_preop_egfr(proc_id))
    IN  IF max_creatinine < 0 THEN None ELSE egfr_of(max_creatinine, first)

\* The rows iloc[0] can be; the query has no ORDER BY.  NoRow stands for the
\* first row of an empty frame, which the code never reads.
NoRow == [measurement_datetime |-> 0, value_as_number |-> None, unit_source_value |-> "",
          age |-> 0, gender_concept_id |-> 0, body_height |-> None]
FirstRows(proc_id) ==
    IF query_preop_egfr(proc_id) = {} THEN {NoRow} ELSE query_preop_egfr(proc_id)

(***************************************************************************)
(* get_postop_creatinine.                                                  *)
(***************************************************************************)
\* Mutant of query_postop_creatinine: the 7-day window starts where the 2-day
\* window ends.
query_postop_creatinine_disjoint(proc_id, within_n_days) ==
    {m \in measurement :
        /\ IsCreatinineRow(m)
        /\ \E p \in ProcedureRows(proc_id) :
              /\ m.measurement_datetime >
                    p.procedure_datetime + (IF within_n_days = 7 THEN 2 ELSE 0)
              /\ m.measurement_datetime <= p.procedure_datetime + within_n_days}

\* measurement_datetime > procedure_datetime
\* AND measurement_datetime <= procedure_datetime + within_n_days DAY
query_postop_creatinine(proc_id, within_n_days) ==
    {m \in measurement :
        /\ IsCreatinineRow(m)
        /\ \E p \in ProcedureRows(proc_id) :
              /\ m.measurement_datetime > p.procedure_datetime
              /\ m.measurement_datetime <= p.procedure_datetime + within_n_days}

get_postop_creatinine(proc_id) ==
    [within_2_days |-> Normalize(query_postop_creatinine(proc_id, 2)),
     within_7_days |-> Normalize(query_postop_creatinine(proc_id, 7))]

(***************************************************************************)
(* has_close_surgery_without_creatinine_between_surgeries.                 *)
(***************************************************************************)
\* list(df_serum_creatinine_datetime['measurement_datetime'])
creatinine_datetimes(proc_id) ==
    {m.measurement_datetime :
        m \in {x \in measurement : IsCreatinineRow(x) /\ ProcedureRows(proc_id) # {}}}

\* The visits of the patient with a creatinine measurement (of any unit).
creatinine_meas_visit ==
    {m.visit_occurrence_id :
        m \in {x \in measurement :
                 /\ ~IsNone(x.value_as_number)
                 /\ x.measurement_concept_id \in SERUM_CREATININE_CONCEPT_IDS
                 /\ ~IsNone(x.visit_occurrence_id)}}

\* query_procedures: the patient's procedures of a visit with a creatinine
\* measurement, with a surgical concept, at an age of 18 or more.
query_procedures(proc_id) ==
    {p \in procedure_occurrence :
        /\ p.visit_occurrence_id \in creatinine_meas_visit
        /\ p.procedure_concept_id \in all_surgical_concept_ids
        /\ AgeAt(p.procedure_datetime) >= 18}

\* sorted(set(...))
RECURSIVE sorted(_)
sorted(S) ==
    IF S = {} THEN <<>>
    ELSE LET least == CHOOSE x \in S : \A y \in S : x <= y
         IN  <<least>> \o sorted(S \ {least})

\* Mutant of proc_dt_to_next_proc_dt: key and value exchanged,
\* {s[i + 1]: s[i] for i in range(len(s) - 1)}.
proc_dt_to_prev_proc_dt(sorted_unique_proc_datetimes) ==
    [dt \in {sorted_unique_proc_datetimes[i + 1] :
                i \in 1..(Len(sorted_unique_proc_datetimes) - 1)} |->
        LET i == CHOOSE j \in 1..(Len(sorted_unique_proc_datetimes) - 1) :
                     sorted_unique_proc_datetimes[j + 1] = dt
        IN  sorted_unique_proc_datetimes[i]]

\* {s[i]: s[i + 1] for i in range(len(s) - 1)}
proc_dt_to_next_proc_dt(sorted_unique_proc_datetimes) ==
    [dt \in {sorted_unique_proc_datetimes[i] :
                i \in 1..(Len(sorted_unique_proc_datetimes) - 1)} |->
        LET i == CHOOSE j \in 1..(Len(sorted_unique_proc_datetimes) - 1) :
                     sorted_unique_proc_datetimes[j] = dt
        IN  sorted_unique_proc_datetimes[i + 1]]

\* Mutant of close_surgery_row: a gap of exactly 7 days excluded.
close_surgery_row_7_excluded(row, next_of, datetimes) ==
    LET proc_datetime == row.procedure_datetime
    IN  IF proc_datetime \notin DOMAIN next_of THEN "False"
        ELSE LET next_proc_datetime == next_of[proc_datetime]
             IN  IF next_proc_datetime - proc_datetime >= 7 THEN "False"
                 ELSE IF Cardinality({x \in datetimes : x > proc_datetime}
                                     \cap {x \in datetimes : x <= next_proc_datetime}) = 0
                      THEN "True"
                      ELSE "continue"

\* Mutant of close_surgery_row: a draw at the time of the next surgery is not
\* counted as lying between the surgeries.
close_surgery_row_draw_before_next(row, next_of, datetimes) ==
    LET proc_datetime == row.procedure_datetime
    IN  IF proc_datetime \notin DOMAIN next_of THEN "False"
        ELSE LET next_proc_datetime == next_of[proc_datetime]
             IN  IF next_proc_datetime - proc_datetime > 7 THEN "False"
                 ELSE IF Cardinality({x \in datetimes : x > proc_datetime}
                                     \cap {x \in datetimes : x < next_proc_datetime}) = 0
                      THEN "True"
                      ELSE "continue"

\* The body of the loop for one row of the index procedure: "True", "False"
\* when it returns, "continue" when it falls through to the next row.
close_surgery_row(row, next_of, datetimes) ==
    LET proc_datetime == row.procedure_datetime
    IN  IF proc_datetime \notin DOMAIN next_of THEN "False"
        ELSE LET next_proc_datetime == next_of[proc_datetime]
             IN  IF next_proc_datetime - proc_datetime > 7 THEN "False"
                 ELSE IF Cardinality({x \in datetimes : x > proc_datetime}
                                     \cap {x \in datetimes : x <= next_proc_datetime}) = 0
                      THEN "True"
                      ELSE "continue"

\* Mutant of has_close_surgery_raises: the index procedure's row read with
\* iloc[0] from the filtered history.
has_close_surgery_raises_on_filtered(proc_id) ==
    {p \in query_procedures(proc_id) : p.procedure_occurrence_id = proc_id} = {}

\* procedure_occurrence_id is the key of procedure_occurrence: the loop meets at
\* most one row of the index procedure, and returns False when it meets none.
\* df_person_id.iloc[0, 0] raises IndexError when the procedure does not exist.
has_close_surgery_raises(proc_id) == ProcedureRows(proc_id) = {}

has_close_surgery_without_creatinine_between_surgeries(proc_id) ==
    LET df_procedures == query_procedures(proc_id)
        next_of == proc_dt_to_next_proc_dt(
                       sorted({p.procedure_datetime : p \in df_procedures}))
        rows == {p \in df_procedures : p.procedure_occurrence_id = proc_id}
    IN  IF rows = {} THEN FALSE
        ELSE close_surgery_row(CHOOSE row \in rows : TRUE, next_of,
                               creatinine_datetimes(proc_id)) = "True"

(***************************************************************************)
(* acute_kidney_injury.                                                    *)
(***************************************************************************)
AbsoluteRise == (3 * CreatinineUnit) \div 10     \* 0.3 mg/dL

\* Mutant of stage: the 3.0x threshold exclusive.
stage_exclusive_3x(baseline_creatinine, postop_creatinine) ==
    IF Val(postop_creatinine.within_7_days) > 3 * baseline_creatinine THEN 3
    ELSE IF Val(postop_creatinine.within_7_days) >= 2 * baseline_creatinine THEN 2
    ELSE IF 2 * Val(postop_creatinine.within_7_days) >= 3 * baseline_creatinine THEN 1
    ELSE IF /\ ~IsNone(postop_creatinine.within_2_days)
            /\ Val(postop_creatinine.within_2_days) >= AbsoluteRise + baseline_creatinine
         THEN 1
    ELSE 0

\* Mutant of stage: the absolute-rise threshold exclusive.
stage_exclusive_rise(baseline_creatinine, postop_creatinine) ==
    IF Val(postop_creatinine.within_7_days) >= 3 * baseline_creatinine THEN 3
    ELSE IF Val(postop_creatinine.within_7_days) >= 2 * baseline_creatinine THEN 2
    ELSE IF 2 * Val(postop_creatinine.within_7_days) >= 3 * baseline_creatinine THEN 1
    ELSE IF /\ ~IsNone(postop_creatinine.within_2_days)
            /\ Val(postop_creatinine.within_2_days) > AbsoluteRise + baseline_creatinine
         THEN 1
    ELSE 0

\* The comparison of the post-op peaks with the baseline.
stage(baseline_creatinine, postop_creatinine) ==
    IF Val(postop_creatinine.within_7_days) >= 3 * baseline_creatinine THEN 3
    ELSE IF Val(postop_creatinine.within_7_days) >= 2 * baseline_creatinine THEN 2
    ELSE IF 2 * Val(postop_creatinine.within_7_days) >= 3 * baseline_creatinine THEN 1
    ELSE IF /\ ~IsNone(postop_creatinine.within_2_days)
            /\ Val(postop_creatinine.within_2_days) >= AbsoluteRise + baseline_creatinine
         THEN 1
    ELSE 0

\* Mutant of decide: Confounded tested before NoPostopData.
decide_confounded_first(highest_preop_creatinine, preop_egfr_lowest, postop_creatinine, has_close_surgery) ==
    IF IsNone(highest_preop_creatinine) THEN -3
    ELSE IF ~IsNone(preop_egfr_lowest) /\ Val(preop_egfr_lowest) < 15 THEN -2
    ELSE IF has_close_surgery THEN -4
    ELSE IF IsNone(postop_creatinine.within_7_days) THEN -1
    ELSE stage(Val(highest_preop_creatinine), postop_creatinine)

\* Mutant of decide: an unknown eGFR treated as advanced CKD.
decide_unknown_egfr_fails(highest_preop_creatinine, preop_egfr_lowest, postop_creatinine, has_close_surgery) ==
    IF IsNone(highest_preop_creatinine) THEN -3
    ELSE IF IsNone(preop_egfr_lowest) \/ Val(preop_egfr_lowest) < 15 THEN -2
    ELSE IF IsNone(postop_creatinine.within_7_days) THEN -1
    ELSE IF has_close_surgery THEN -4
    ELSE stage(Val(highest_preop_creatinine), postop_creatinine)

\* The decision procedure on the values the four helpers returned.
decide(highest_preop_creatinine, preop_egfr_lowest, postop_creatinine, has_close_surgery) ==
    IF IsNone(highest_preop_creatinine) THEN -3
    ELSE IF ~IsNone(preop_egfr_lowest) /\ Val(preop_egfr_lowest) < 15 THEN -2
    ELSE IF IsNone(postop_creatinine.within_7_days) THEN -1
    ELSE IF has_close_surgery THEN -4
    ELSE stage(Val(highest_preop_creatinine), postop_creatinine)

\* Whether the call reaches has_close_surgery_..., and so raises when it does.
reaches_close_surgery(proc_id, first) ==
    /\ ~IsNone(get_highest_preop_creatinine(proc_id))
    /\ LET preop_egfr_lowest == get_preop_egfr(proc_id, first)
       IN  ~(~IsNone(preop_egfr_lowest) /\ Val(preop_egfr_lowest) < 15)
    /\ ~IsNone(get_postop_creatinine(proc_id).within_7_days)

acute_kidney_injury(proc_id, first) ==
    decide(get_highest_preop_creatinine(proc_id),
           get_preop_egfr(proc_id, first),
           get_postop_creatinine(proc_id),
           has_close_surgery_without_creatinine_between_surgeries(proc_id))

(***************************************************************************)
(* Code strings.  A str is the sequence of its characters, so that         *)
(* isdigit, int, slicing and formatting are computed, not assumed.         *)
(***************************************************************************)
DigitChars == <<"0", "1", "2", "3", "4", "5", "6", "7", "8", "9">>
IsDigitChar(c) == \E i \in 1..10 : DigitChars[i] = c
DigitVal(c) == (CHOOSE i \in 1..10 : DigitChars[i] = c) - 1
CapitalChars == {"A", "B", "G", "T", "U", "Z"}     \* the [A-Z] of this model

\* str.isdigit(): non-empty and every character a digit.
isdigit(s) == s # <<>> /\ \A i \in 1..Len(s) : IsDigitChar(s[i])

\* int(s) for a string of digits (int raises ValueError on any other string
\* of this alphabet, the empty string included).
RECURSIVE int(_)
int(s) ==
    IF s = <<>> THEN 0
    ELSE int(SubSeq(s, 1, Len(s) - 1)) * 10 + DigitVal(s[Len(s)])
int_raises(s) == ~isdigit(s)

\* cpt_code != '33025' after cpt_code = int(cpt_code): an int and a str are
\* never equal in Python, so the comparison is True for every code.
int_ne_str(n, s) == TRUE

(***************************************************************************)
(* The four CPT predicates and cardiac_procedure_type.                     *)
(***************************************************************************)
InRange(lo, n, hi) == lo <= n /\ n <= hi

is_open_cardiac_surgical_cpt(cpt_code) ==
    IF ~isdigit(cpt_code) THEN FALSE
    ELSE LET n == int(cpt_code)
         IN  \/ InRange(33020, n, 33100) /\ int_ne_str(n, <<"3", "3", "0", "2", "5">>)
             \/ InRange(33120, n, 33130)
             \/ InRange(33140, n, 33141)
             \/ InRange(33300, n, 33315)
             \/ InRange(33321, n, 33322)
             \/ n = 33335
             \/ InRange(33390, n, 33417)
             \/ InRange(33422, n, 33471)
             \/ InRange(33474, n, 33476)
             \/ n = 33478
             \/ n = 33496
             \/ InRange(33500, n, 33507)
             \/ n = 33508
             \/ InRange(33510, n, 33516)
             \/ InRange(33517, n, 33530)
             \/ InRange(33533, n, 33548)
             \/ n = 33572
             \/ InRange(33600, n, 33622)
             \/ InRange(33641, n, 33697)
             \/ InRange(33702, n, 33722)
             \/ InRange(33724, n, 33732)
             \/ InRange(33735, n, 33768)
             \/ InRange(33770, n, 33783)
             \/ InRange(33786, n, 33788)
             \/ InRange(33800, n, 33853)
             \/ InRange(33858, n, 33877)
             \/ InRange(33910, n, 33926)
             \/ InRange(33927, n, 33945)
             \/ InRange(33975, n, 33983)

is_ep_cath_surgical_cpt(cpt_code) ==
    IF ~isdigit(cpt_code) THEN FALSE
    ELSE LET n == int(cpt_code)
         IN  \/ InRange(33016, n, 33019)
             \/ InRange(33202, n, 33275)
             \/ InRange(33285, n, 33286)
             \/ n = 33289
             \/ InRange(92920, n, 92979)
             \/ InRange(92950, n, 92985)
             \/ n = 92998
             \/ InRange(93451, n, 93533)
             \/ InRange(93600, n, 93662)

is_transcatheter_endovascular_surgical_cpt(cpt_code) ==
    IF ~isdigit(cpt_code) THEN FALSE
    ELSE LET n == int(cpt_code)
         IN  \/ n = 33340
             \/ InRange(33361, n, 33364)
             \/ InRange(33418, n, 33420)
             \/ n = 33477
             \/ InRange(33880, n, 33891)
             \/ InRange(33990, n, 33993)
             \/ n = 92986
             \/ n = 92987
             \/ n = 92990
             \/ InRange(93580, n, 93592)

is_other_cardiac_surgical_cpt(cpt_code) ==
    IF ~isdigit(cpt_code) THEN FALSE
    ELSE LET n == int(cpt_code)
         IN  \/ InRange(33016, n, 33019)
             \/ n = 33025
             \/ n = 35820
             \/ n = 35840
             \/ InRange(33365, n, 33369)
             \/ n = 33320
             \/ n = 33330
             \/ InRange(33946, n, 33959)
             \/ InRange(33962, n, 33974)
             \/ InRange(33984, n, 33989)
             \/ n = 33999

\* Mutant of cardiac_procedure_type: Other tested before EP/Cath.
cardiac_procedure_type_other_first(cpt_code) ==
    IF is_open_cardiac_surgical_cpt(cpt_code) THEN 1
    ELSE IF is_other_cardiac_surgical_cpt(cpt_code) THEN 4
    ELSE IF is_ep_cath_surgical_cpt(cpt_code) THEN 2
    ELSE IF is_transcatheter_endovascular_surgical_cpt(cpt_code) THEN 3
    ELSE 0

\* Mutant of cardiac_procedure_type: a code that satisfies no predicate is
\* given the subclass code of 'Other'.
cardiac_procedure_type_default_other(cpt_code) ==
    IF is_open_cardiac_surgical_cpt(cpt_code) THEN 1
    ELSE IF is_ep_cath_surgical_cpt(cpt_code) THEN 2
    ELSE IF is_transcatheter_endovascular_surgical_cpt(cpt_code) THEN 3
    ELSE 4

cardiac_procedure_type(cpt_code) ==
    IF is_open_cardiac_surgical_cpt(cpt_code) THEN 1
    ELSE IF is_ep_cath_surgical_cpt(cpt_code) THEN 2
    ELSE IF is_transcatheter_endovascular_surgical_cpt(cpt_code) THEN 3
    ELSE IF is_other_cardiac_surgical_cpt(cpt_code) THEN 4
    ELSE 0

(***************************************************************************)
(* __init__: the expansion of the rows of the CPT range file into          *)
(* self.cpt_to_ccs.  A row is [cpt_code_range, ccs_numerical_label].       *)
(***************************************************************************)
\* s[a:b] of Python for 0 <= a, 0 <= b.
Slice(s, a, b) == SubSeq(s, a + 1, Min(b, Len(s)))

\* The positions of '-' in the range string; split('-') gives two parts, as
\* the unpacking requires, iff there is exactly one.
DashPositions(row) ==
    {i \in 1..Len(row.cpt_code_range) : row.cpt_code_range[i] = "-"}
split_raises(row) == Cardinality(DashPositions(row)) # 1
code_from(row) ==
    SubSeq(row.cpt_code_range, 1, (CHOOSE i \in DashPositions(row) : TRUE) - 1)
code_to(row) ==
    SubSeq(row.cpt_code_range, (CHOOSE i \in DashPositions(row) : TRUE) + 1,
           Len(row.cpt_code_range))

\* re.search(r'^[A-Z]', code_from) and re.search(r'[A-Z]$', code_from).
starts_alpha(row) == code_from(row) # <<>> /\ code_from(row)[1] \in CapitalChars
ends_alpha(row) ==
    code_from(row) # <<>> /\ code_from(row)[Len(code_from(row))] \in CapitalChars
code_start_alpha(row) == IF starts_alpha(row) THEN <<code_from(row)[1]>> ELSE <<>>
code_end_alpha(row) ==
    IF ends_alpha(row) THEN <<code_from(row)[Len(code_from(row))]>> ELSE <<>>
code_num_start_idx(row) == IF starts_alpha(row) THEN 1 ELSE 0
code_num_end_idx(row) ==
    IF ends_alpha(row) THEN Len(code_from(row)) - 1 ELSE Len(code_from(row))

\* Both ends are cut with the indexes found on code_from.
code_from_body(row) == Slice(code_from(row), code_num_start_idx(row), code_num_end_idx(row))
code_to_body(row) == Slice(code_to(row), code_num_start_idx(row), code_num_end_idx(row))
code_from_num(row) == int(code_from_body(row))
code_to_num(row) == int(code_to_body(row))
code_num_len(row) == code_num_end_idx(row) - code_num_start_idx(row)

\* The ValueError of the unpacking or of either int().
row_raises(row) ==
    \/ split_raises(row)
    \/ int_raises(code_from_body(row))
    \/ int_raises(code_to_body(row))

\* f'{code_num:0{code_num_len}d}': the decimal digits, zero-padded on the
\* left to the width; a longer number is not cut.
RECURSIVE str(_)
str(n) == IF n < 10 THEN <<DigitChars[n + 1]>> ELSE str(n \div 10) \o <<DigitChars[(n % 10) + 1]>>
RECURSIVE zfill(_, _)
zfill(digits, width) == IF Len(digits) >= width THEN digits ELSE zfill(<<"0">> \o digits, width)
format(code_num, width) == zfill(str(code_num), width)

\* Mutant of row_keys: range(code_from_num, code_to_num).
row_keys_exclusive(row) ==
    {code_start_alpha(row) \o format(code_num, code_num_len(row)) \o code_end_alpha(row) :
        code_num \in code_from_num(row)..(code_to_num(row) - 1)}

\* The keys one row writes: for code_num in range(code_from_num, code_to_num + 1).
row_keys(row) ==
    {code_start_alpha(row) \o format(code_num, code_num_len(row)) \o code_end_alpha(row) :
        code_num \in code_from_num(row)..code_to_num(row)}

\* __init__ raises iff some row does; no object exists then.
init_raises(rows) == \E i \in 1..Len(rows) : row_raises(rows[i])

\* The dict after the loop over the rows: a later row's assignment replaces
\* an earlier one's.
build_cpt_to_ccs(rows) ==
    LET keys == UNION {row_keys(rows[i]) : i \in 1..Len(rows)}
        last(k) == CHOOSE i \in 1..Len(rows) :
                      /\ k \in row_keys(rows[i])
                      /\ \A j \in (i + 1)..Len(rows) : k \notin row_keys(rows[j])
    IN  [k \in keys |-> rows[last(k)].ccs_numerical_label]

\* dict.get(key, default) and key in dict.
Has(dict, key) == key \in DOMAIN dict
Get(dict, key, default) == IF key \in DOMAIN dict THEN dict[key] ELSE default
EmptyDict == [k \in {} |-> 0]

(***************************************************************************)
(* classify_surgical_procedure.                                            *)
(***************************************************************************)
COVERED_CODE_TYPES == {"CPT4", "ICD10PCS"}
CARDIAC_SUBCLASS_CODE_TO_NAME ==
    [c \in 1..4 |-> <<"Open", "EP/Cath", "Transcatheter/Endovascular", "Other">>[c]]
CardiacCategories == {"CARD", "CBGB", "CBGC", "HTP", "PACE"}
DoesNotMap == "Does not map to any procedure in range"

\* query_proc_code: procedure_occurrence JOIN concept ON procedure_concept_id.
query_proc_code(proc_id) ==
    {c \in concept : \E p \in ProcedureRows(proc_id) : p.procedure_concept_id = c.concept_id}

\* The row the method reads with iloc[0]; concept_id is the key of concept, so
\* the join has at most one row.
proc_code(proc_id) == CHOOSE c \in query_proc_code(proc_id) : TRUE

\* is_cardiac_procedure; for ICD10PCS the code is looked up with [] and a
\* code absent from the category table raises KeyError.
is_cardiac_procedure_raises(code_type, code) ==
    code_type = "ICD10PCS" /\ ~Has(icd10_code_to_category, code)
is_cardiac_procedure(code_type, code) ==
    IF code_type = "ICD10PCS"
    THEN /\ Has(icd10_code_to_category, code)
         /\ icd10_code_to_category[code] \in CardiacCategories
    ELSE cardiac_procedure_type(code) > 0

\* Mutant of cardiac_subclass_code: an ICD10PCS code without an entry given
\* subclass 1.
cardiac_subclass_code_default_1(code_type, code) ==
    IF code_type = "CPT4"
    THEN cardiac_procedure_type(code)
    ELSE Get(cardiac_icd10_code_to_category_code, code, 1)

cardiac_subclass_code(code_type, code) ==
    IF code_type = "CPT4"
    THEN cardiac_procedure_type(code)
    ELSE Get(cardiac_icd10_code_to_category_code, code, 4)

\* CARDIAC_SUBCLASS_CODE_TO_NAME[cardiac_subclass_code] raises KeyError for a
\* subclass code that has no name.
cardiac_subclass_raises(code_type, code) ==
    /\ is_cardiac_procedure(code_type, code)
    /\ cardiac_subclass_code(code_type, code) \notin DOMAIN CARDIAC_SUBCLASS_CODE_TO_NAME

\* self.icd10_code_to_category[proc_code.code] raises KeyError as well.
procedural_category_raises(code_type, code) ==
    code_type = "ICD10PCS" /\ ~Has(icd10_code_to_category, code)

\* Mutant of procedural_category: the label looked up without the default.
procedural_category_no_default(code_type, code) ==
    IF code_type = "CPT4"
    THEN IF Has(cpt_to_ccs, code)
         THEN Get(ccs_num_label_to_text, cpt_to_ccs[code], "")
         ELSE DoesNotMap
    ELSE Get(icd10_code_to_category, code, "")

procedural_category(code_type, code) ==
    IF code_type = "CPT4"
    THEN IF Has(cpt_to_ccs, code)
         THEN Get(ccs_num_label_to_text, cpt_to_ccs[code], DoesNotMap)
         ELSE DoesNotMap    \* .get(None, default): None is no key of an int-keyed dict
    ELSE Get(icd10_code_to_category, code, "")    \* absent: raised, see above

CategoryResult(code_type, code, is_cardiac, cardiac_subclass, category) ==
    [code_type |-> code_type, code |-> code, is_cardiac |-> is_cardiac,
     cardiac_subclass |-> cardiac_subclass, procedural_category |-> category]

\* Mutant of classify_raises: the category lookups made with .get.
classify_raises_lookups_with_get(proc_id) ==
    /\ query_proc_code(proc_id) # {}
    /\ proc_code(proc_id).vocabulary_id \in COVERED_CODE_TYPES
    /\ cardiac_subclass_raises(proc_code(proc_id).vocabulary_id,
                               proc_code(proc_id).concept_code)

\* Mutant of classify_raises: CodeType[code_type] reached for a vocabulary
\* that is not covered.
classify_raises_uncovered_type(proc_id) ==
    /\ query_proc_code(proc_id) # {}
    /\ \/ proc_code(proc_id).vocabulary_id \notin COVERED_CODE_TYPES
       \/ is_cardiac_procedure_raises(proc_code(proc_id).vocabulary_id,
                                      proc_code(proc_id).concept_code)
       \/ cardiac_subclass_raises(proc_code(proc_id).vocabulary_id,
                                  proc_code(proc_id).concept_code)
       \/ procedural_category_raises(proc_code(proc_id).vocabulary_id,
                                     proc_code(proc_id).concept_code)

classify_raises(proc_id) ==
    /\ query_proc_code(proc_id) # {}
    /\ proc_code(proc_id).vocabulary_id \in COVERED_CODE_TYPES
    /\ LET code_type == proc_code(proc_id).vocabulary_id
           code == proc_code(proc_id).concept_code
       IN  \/ is_cardiac_procedure_raises(code_type, code)
           \/ cardiac_subclass_raises(code_type, code)
           \/ procedural_category_raises(code_type, code)

\* Mutant of classify_surgical_procedure: a cardiac ICD10PCS code without an
\* entry in the cardiac-subclass table is given no subclass.
classify_surgical_procedure_no_default(proc_id) ==
    IF query_proc_code(proc_id) = {} THEN None
    ELSE LET code_type == proc_code(proc_id).vocabulary_id
             code == proc_code(proc_id).concept_code
         IN  IF code_type \notin COVERED_CODE_TYPES THEN None
             ELSE LET is_cardiac == is_cardiac_procedure(code_type, code)
                  IN  Some(CategoryResult(
                          code_type, code, is_cardiac,
                          IF /\ is_cardiac
                             /\ \/ code_type = "CPT4"
                                \/ Has(cardiac_icd10_code_to_category_code, code)
                          THEN Some(CARDIAC_SUBCLASS_CODE_TO_NAME[cardiac_subclass_code(code_type, code)])
                          ELSE None,
                          procedural_category(code_type, code)))

\* The value returned when nothing is raised: None or a CategoryResult.
classify_surgical_procedure(proc_id) ==
    IF query_proc_code(proc_id) = {} THEN None
    ELSE LET code_type == proc_code(proc_id).vocabulary_id
             code == proc_code(proc_id).concept_code
         IN  IF code_type \notin COVERED_CODE_TYPES THEN None
             ELSE LET is_cardiac == is_cardiac_procedure(code_type, code)
                  IN  Some(CategoryResult(
                          code_type, code, is_cardiac,
                          IF is_cardiac
                          THEN Some(CARDIAC_SUBCLASS_CODE_TO_NAME[cardiac_subclass_code(code_type, code)])
                          ELSE None,
                          procedural_category(code_type, code)))

(***************************************************************************)
(* Calls.  Each public method is one action; ret records the call.        *)
(***************************************************************************)
Returned(op, proc_id, first, val) ==
    [op |-> op, proc_id |-> proc_id, first |-> first, raised |-> FALSE, val |-> val]
Raised(op, proc_id, first, error) ==
    [op |-> op, proc_id |-> proc_id, first |-> first, raised |-> TRUE, val |-> error]

\* The procedure ids a caller passes: those of the patient, and 0, which no
\* procedure has.
ProcIdArgs == {p.procedure_occurrence_id : p \in procedure_occurrence} \cup {0}

Tables == <<measurement, procedure_occurrence, person, all_surgical_concept_ids,
            concept, cpt_ccs_mapping, icd10_code_to_category,
            cardiac_icd10_code_to_category_code, ccs_num_label_to_text, cpt_to_ccs>>

GetHighestPreopCreatinine ==
    /\ \E proc_id \in ProcIdArgs :
          ret' = Returned("get_highest_preop_creatinine", proc_id, NoRow,
                          get_highest_preop_creatinine(proc_id))
    /\ UNCHANGED Tables

GetPreopEgfr ==
    /\ \E proc_id \in ProcIdArgs : \E first \in FirstRows(proc_id) :
          ret' = Returned("get_preop_egfr", proc_id, first,
                          get_preop_egfr(proc_id, first))
    /\ UNCHANGED Tables

GetPostopCreatinine ==
    /\ \E proc_id \in ProcIdArgs :
          ret' = Returned("get_postop_creatinine", proc_id, NoRow,
                          get_postop_creatinine(proc_id))
    /\ UNCHANGED Tables

HasCloseSurgery ==
    /\ \E proc_id \in ProcIdArgs :
          ret' = IF has_close_surgery_raises(proc_id)
                 THEN Raised("has_close_surgery", proc_id, NoRow, "IndexError")
                 ELSE Returned("has_close_surgery", proc_id, NoRow,
                        has_close_surgery_without_creatinine_between_surgeries(proc_id))
    /\ UNCHANGED Tables

AcuteKidneyInjury ==
    /\ \E proc_id \in ProcIdArgs : \E first \in FirstRows(proc_id) :
          ret' = IF reaches_close_surgery(proc_id, first)
                    /\ has_close_surgery_raises(proc_id)
                 THEN Raised("acute_kidney_injury", proc_id, first, "IndexError")
                 ELSE Returned("acute_kidney_injury", proc_id, first,
                               acute_kidney_injury(proc_id, first))
    /\ UNCHANGED Tables

ClassifySurgicalProcedure ==
    /\ \E proc_id \in ProcIdArgs :
          ret' = IF classify_raises(proc_id)
                 THEN Raised("classify_surgical_procedure", proc_id, NoRow, "KeyError")
                 ELSE Returned("classify_surgical_procedure", proc_id, NoRow,
                               classify_surgical_procedure(proc_id))
    /\ UNCHANGED Tables

\* A call of cardiac_procedure_type on a code string; the call record carries
\* the argument.
CptCodeArgs ==
    {c.concept_code : c \in concept} \cup {<<>>, <<"G", "0", "1", "0", "5">>}
CardiacProcedureType ==
    /\ \E cpt_code \in CptCodeArgs :
          ret' = [op |-> "cardiac_procedure_type", proc_id |-> 0, first |-> NoRow,
                  raised |-> FALSE, val |-> cardiac_procedure_type(cpt_code),
                  cpt_code |-> cpt_code]
    /\ UNCHANGED Tables

\* AKITool(workspace_cdr): the constructor reads the range file into
\* self.cpt_to_ccs, or raises ValueError and leaves no tool.
Construct ==
    /\ IF init_raises(cpt_ccs_mapping)
       THEN /\ ret' = Raised("__init__", 0, NoRow, "ValueError")
            /\ cpt_to_ccs' = EmptyDict
       ELSE /\ ret' = Returned("__init__", 0, NoRow, None)
            /\ cpt_to_ccs' = build_cpt_to_ccs(cpt_ccs_mapping)
    /\ UNCHANGED <<measurement, procedure_occurrence, person, all_surgical_concept_ids,
                   concept, cpt_ccs_mapping, icd10_code_to_category,
                   cardiac_icd10_code_to_category_code, ccs_num_label_to_text>>

(***************************************************************************)
(* Initial states: a snapshot of the patient's records.                    *)
(***************************************************************************)
RECURSIVE SubsetsUpTo(_, _)
SubsetsUpTo(D, k) ==
    IF k = 0 THEN {{}}
    ELSE LET smaller == SubsetsUpTo(D, k - 1)
         IN  smaller \cup {s \cup {x} : s \in smaller, x \in D}

Reading(t, value, unit, concept_id, visit) ==
    [measurement_datetime |-> t, value_as_number |-> value,
     unit_source_value |-> unit, measurement_concept_id |-> concept_id,
     visit_occurrence_id |-> visit]

\* A serum creatinine measurement of visit 1: day, value in tenths of the
\* unit, unit.
Creatinine(t, v, unit) == Reading(t, Some(v), unit, 3016723, Some(1))

\* A body height measurement of visit 1: day, value in tenths of a cm.
Height(t, v) == Reading(t, Some(v), "cm", BODY_HEIGHT_CONCEPT_ID, Some(1))

Procedure(id, row) ==
    [procedure_occurrence_id |-> id, procedure_datetime |-> row[1],
     procedure_concept_id |-> row[2], visit_occurrence_id |-> row[3]]

\* A surgical procedure of visit 1, on day t.
Surgery(t) == <<t, SURGICAL_PROC_CONCEPT_ID, Some(1)>>

Born(age_at_0, days, gender) ==
    [birth_datetime |-> -(age_at_0 * DaysPerYear + days), gender_concept_id |-> gender]

NoCall == [op |-> "none", proc_id |-> 0, first |-> NoRow, raised |-> FALSE, val |-> None]

\* A concept row, a row of the CPT range file, and the reference data of a
\* constructed tool: self.cpt_to_ccs is what __init__ built from the file.
Concept(id, vocabulary, code) ==
    [concept_id |-> id, vocabulary_id |-> vocabulary, concept_code |-> code]
RangeRow(range, label) == [cpt_code_range |-> range, ccs_numerical_label |-> label]
InitReference(Concepts, Categories, CardiacCodes, Labels, RangeFiles) ==
    /\ concept \in Concepts
    /\ icd10_code_to_category \in Categories
    /\ cardiac_icd10_code_to_category_code \in CardiacCodes
    /\ ccs_num_label_to_text \in Labels
    /\ cpt_ccs_mapping \in {rows \in RangeFiles : ~init_raises(rows)}
    /\ cpt_to_ccs = build_cpt_to_ccs(cpt_ccs_mapping)

\* The concept row of the surgical procedure concept (SNOMED 387713003).
SurgicalConcept ==
    Concept(SURGICAL_PROC_CONCEPT_ID, "SNOMED",
            <<"3", "8", "7", "7", "1", "3", "0", "0", "3">>)

\* Procedure 1 is on day 0; the patient's other procedures are 2, 3, ...
InitTables(Measurements, IndexProcedures, OtherProcedures, Patients) ==
    /\ measurement \in SubsetsUpTo(Measurements, MaxMeasurements)
    /\ \E n \in 0..MaxOtherProcedures :
         \E others \in [2..(n + 1) -> OtherProcedures] :
           \E index \in IndexProcedures :
              procedure_occurrence =
                  {Procedure(1, index)} \cup {Procedure(i, others[i]) : i \in 2..(n + 1)}
    /\ person \in Patients
    /\ all_surgical_concept_ids = {SURGICAL_PROC_CONCEPT_ID}
    /\ InitReference({{SurgicalConcept}}, {EmptyDict}, {EmptyDict}, {EmptyDict}, {<<>>})
    /\ ret = NoCall

(***************************************************************************)
(* Spec: every method, on a small history.                                 *)
(***************************************************************************)
Init ==
    InitTables({Creatinine(-60, 10, "mg/dL"), Creatinine(-61, 50, "mg/dL"),
                Creatinine(0, 884, "umol/L"), Creatinine(2, 13, "mg/dL"),
                Creatinine(7, 30, "258797006"), Height(-5, 1452)},
               {Surgery(0)},
               {Surgery(2), Surgery(8)},
               {Born(40, 100, MALE_CONCEPT_ID), Born(18, 30, 45878463)})

Next ==
    \/ GetHighestPreopCreatinine
    \/ GetPreopEgfr
    \/ GetPostopCreatinine
    \/ HasCloseSurgery
    \/ AcuteKidneyInjury
    \/ ClassifySurgicalProcedure

Spec == Init /\ [][Next]_vars

(***************************************************************************)
(* SpecAKI: acute_kidney_injury on histories that reach every exclusion    *)
(* and every staging threshold: baselines 1.0 and 5.0 mg/dL (eGFR 14 for   *)
(* the adult, 12 for the child of 145.2 cm), peaks on both sides of        *)
(* baseline + 0.3, 1.5x, 2x and 3x, later surgeries on days 1 and 2.       *)
(***************************************************************************)
InitAKI ==
    InitTables({Creatinine(-10, 10, "mg/dL"), Creatinine(-10, 50, "mg/dL"),
                Creatinine(2, 12, "mg/dL"), Creatinine(2, 13, "mg/dL"),
                Creatinine(3, 14, "mg/dL"), Creatinine(3, 15, "mg/dL"),
                Creatinine(3, 19, "mg/dL"), Creatinine(3, 20, "mg/dL"),
                Creatinine(3, 30, "mg/dL"), Creatinine(3, 2651, "umol/L"),
                Height(-5, 1452)},
               {Surgery(0)},
               {Surgery(1), Surgery(2)},
               {Born(40, 100, MALE_CONCEPT_ID), Born(10, 100, MALE_CONCEPT_ID)})

NextAKI == AcuteKidneyInjury

SpecAKI == InitAKI /\ [][NextAKI]_vars

(***************************************************************************)
(* SpecNorm: the three window methods on readings around both ends of the  *)
(* valid range, in every unit, with NULL values and foreign concepts.      *)
(***************************************************************************)
InitNorm ==
    InitTables({Creatinine(-10, 1, "mg/dL"), Creatinine(-10, 2, "mg/dL"),
                Creatinine(-10, 250, "258797006"), Creatinine(-10, 249, "mg/dL"),
                Creatinine(-10, 176, "umol/L"), Creatinine(-10, 177, "umol/L"),
                Reading(-10, None, "mg/dL", 3020564, Some(1)),
                Creatinine(-10, 10, "mmol/L"),
                Creatinine(1, 2, "258797006"), Creatinine(1, 250, "mg/dL"),
                Creatinine(1, 22099, "umol/L"), Creatinine(1, 22100, "umol/L"),
                Creatinine(5, 1, "mg/dL"), Creatinine(5, 249, "mg/dL"),
                Creatinine(5, 177, "umol/L"),
                Reading(5, Some(20), "mg/dL", BODY_HEIGHT_CONCEPT_ID, Some(1))},
               {Surgery(0)},
               {},
               {Born(40, 100, MALE_CONCEPT_ID)})

NextNorm ==
    \/ GetHighestPreopCreatinine
    \/ GetPreopEgfr
    \/ GetPostopCreatinine

SpecNorm == InitNorm /\ [][NextNorm]_vars

(***************************************************************************)
(* SpecEgfr: get_preop_egfr for adults of both sexes, a child, and a       *)
(* patient who turns 18 thirty days before procedure 1; heights that put   *)
(* the bedside formula at 0, near 0, at 299.8 and above 300, and a height  *)
(* of another visit.                                                       *)
(***************************************************************************)
InitEgfr ==
    InitTables({Creatinine(-60, 2, "mg/dL"), Creatinine(-10, 10, "mg/dL"),
                Creatinine(0, 50, "mg/dL"), Creatinine(-61, 249, "mg/dL"),
                Creatinine(0, 177, "umol/L"), Creatinine(-10, 250, "mg/dL"),
                Height(-5, 0), Height(-5, 10), Height(-5, 1452), Height(-4, 1453),
                Reading(-3, Some(1700), "cm", BODY_HEIGHT_CONCEPT_ID, Some(2))},
               {Surgery(0)},
               {Surgery(7)},
               {Born(40, 100, MALE_CONCEPT_ID), Born(40, 100, 45878463),
                Born(10, 100, MALE_CONCEPT_ID), Born(18, 30, 45878463)})

NextEgfr == GetPreopEgfr

SpecEgfr == InitEgfr /\ [][NextEgfr]_vars

(***************************************************************************)
(* SpecClose: the close-surgery detector on histories with surgeries on    *)
(* the index day, 3, 7 and 8 days later and before it, procedures the      *)
(* history query filters out, and draws inside and outside the gap.        *)
(***************************************************************************)
InitClose ==
    InitTables({Creatinine(0, 10, "mg/dL"), Creatinine(1, 10, "mg/dL"),
                Creatinine(3, 1, "mg/dL"), Creatinine(7, 10, "umol/L"),
                Creatinine(8, 10, "mg/dL"), Creatinine(2, 10, "mmol/L"),
                Reading(2, Some(10), "mg/dL", 3020564, Some(2))},
               {Surgery(0), <<0, 0, Some(1)>>, <<0, SURGICAL_PROC_CONCEPT_ID, Some(2)>>},
               {Surgery(0), Surgery(3), Surgery(7), Surgery(8), <<3, 0, Some(1)>>},
               {Born(40, 100, MALE_CONCEPT_ID), Born(10, 100, MALE_CONCEPT_ID)})

NextClose == HasCloseSurgery

SpecClose == InitClose /\ [][NextClose]_vars

(***************************************************************************)
(* SpecClassify: classify_surgical_procedure and cardiac_procedure_type    *)
(* for procedure 1, whose concept is concept 1: CPT4 codes inside one      *)
(* predicate, inside two, inside none, with a letter and empty; ICD10PCS   *)
(* codes present in and absent from each table; another vocabulary; no     *)
(* concept row at all.                                                     *)
(***************************************************************************)
CptCodes ==
    {<<"3", "3", "0", "2", "5">>,
     <<"3", "3", "0", "1", "6">>,
     <<"3", "3", "0", "2", "0">>,
     <<"3", "3", "3", "4", "0">>,
     <<"3", "3", "9", "9", "9">>,
     <<"9", "2", "9", "5", "0">>,
     <<"3", "5", "8", "2", "0">>,
     <<"9", "9", "2", "1", "3">>,
     <<"0", "3", "3", "0", "2", "5">>,
     <<"G", "0", "1", "0", "5">>,
     <<"0", "0", "4", "2", "T">>,
     <<>>}
IcdCodes ==
    {<<"0", "2", "1", "0", "0", "Z", "9">>, <<"0", "D", "B", "6", "0", "Z", "Z">>, <<"0", "2", "H", "6", "3", "J", "Z">>}
ClassifyConcepts ==
    {{}} \cup {{Concept(1, "CPT4", c)} : c \in CptCodes}
         \cup {{Concept(1, "ICD10PCS", c)} : c \in IcdCodes}
         \cup {{Concept(1, "SNOMED", <<"3", "8", "7", "7", "1", "3", "0", "0", "3">>)}}
ClassifyCategories ==
    {EmptyDict,
     <<"0", "2", "1", "0", "0", "Z", "9">> :> "CBGB" @@ <<"0", "D", "B", "6", "0", "Z", "Z">> :> "GAST",
     <<"0", "2", "1", "0", "0", "Z", "9">> :> "CARD" @@ <<"0", "2", "H", "6", "3", "J", "Z">> :> "PACE"}
ClassifyCardiacCodes ==
    {EmptyDict,
     <<"0", "2", "1", "0", "0", "Z", "9">> :> 1,
     <<"0", "2", "H", "6", "3", "J", "Z">> :> 2 @@ <<"0", "D", "B", "6", "0", "Z", "Z">> :> 3,
     <<"0", "2", "1", "0", "0", "Z", "9">> :> 5}
ClassifyLabels ==
    {EmptyDict,
     44 :> "Coronary artery bypass graft (CABG)" @@ 49 :> "Other OR heart procedures"}
ClassifyRangeFiles ==
    {<<>>,
     <<RangeRow(<<"3", "3", "0", "1", "6", "-", "3", "3", "0", "2", "5">>, 49)>>,
     <<RangeRow(<<"3", "3", "0", "2", "0", "-", "3", "3", "0", "2", "5">>, 44),
       RangeRow(<<"3", "3", "9", "9", "9", "-", "3", "3", "9", "9", "9">>, 7)>>}

InitClassify ==
    /\ measurement = {}
    /\ procedure_occurrence = {Procedure(1, <<0, 1, Some(1)>>)}
    /\ person = Born(40, 100, MALE_CONCEPT_ID)
    /\ all_surgical_concept_ids = {SURGICAL_PROC_CONCEPT_ID}
    /\ InitReference(ClassifyConcepts, ClassifyCategories, ClassifyCardiacCodes,
                     ClassifyLabels, ClassifyRangeFiles)
    /\ ret = NoCall

NextClassify ==
    \/ ClassifySurgicalProcedure
    \/ CardiacProcedureType

SpecClassify == InitClassify /\ [][NextClassify]_vars

(***************************************************************************)
(* SpecBuild: the constructor on range files of up to MaxRows rows: rows   *)
(* with and without a letter before and after the digits, two rows that    *)
(* produce the same keys, an empty range, ends of different widths, ends   *)
(* with different letters, a lower-case letter, a row without '-'.         *)
(***************************************************************************)
BuildRows ==
    {RangeRow(<<"0", "0", "1", "-", "0", "0", "3">>, 1),
     RangeRow(<<"0", "0", "2", "-", "0", "0", "4">>, 9),
     RangeRow(<<"G", "0", "1", "0", "0", "-", "G", "0", "1", "0", "2">>, 2),
     RangeRow(<<"0", "0", "0", "1", "T", "-", "0", "0", "0", "3", "T">>, 3),
     RangeRow(<<"A", "0", "1", "B", "-", "A", "0", "2", "B">>, 4),
     RangeRow(<<"0", "0", "5", "-", "0", "0", "4">>, 5),
     RangeRow(<<"1", "0", "0", "-", "1", "0", "0", "0">>, 6),
     RangeRow(<<"0", "0", "0", "1", "T", "-", "0", "0", "0", "3", "U">>, 7),
     RangeRow(<<"A", "0", "0", "1", "-", "B", "0", "0", "3">>, 8),
     RangeRow(<<"0", "1", "-", "A", "3">>, 1),
     RangeRow(<<"a", "0", "1", "-", "a", "0", "2">>, 2),
     RangeRow(<<"0", "0", "1", "0", "0", "3">>, 3),
     RangeRow(<<"9", "8", "-", "0", "1", "Z">>, 4)}
InitBuild ==
    /\ measurement = {}
    /\ procedure_occurrence = {Procedure(1, Surgery(0))}
    /\ person = Born(40, 100, MALE_CONCEPT_ID)
    /\ all_surgical_concept_ids = {SURGICAL_PROC_CONCEPT_ID}
    /\ concept = {SurgicalConcept}
    /\ icd10_code_to_category = EmptyDict
    /\ cardiac_icd10_code_to_category_code = EmptyDict
    /\ ccs_num_label_to_text = EmptyDict
    /\ cpt_ccs_mapping \in UNION {[1..n -> BuildRows] : n \in 0..MaxRows}
    /\ cpt_to_ccs = EmptyDict
    /\ ret = NoCall

NextBuild == Construct

SpecBuild == InitBuild /\ [][NextBuild]_vars

(***************************************************************************)
(* SpecRepeat: classify_surgical_procedure and acute_kidney_injury called  *)
(* again and again on one snapshot: a patient who turns 18 between the     *)
(* pre-op readings of day -60 and day -10 (5.0 mg/dL), or an adult of 40;  *)
(* the procedure's code a CPT4, an ICD10PCS or a SNOMED code.              *)
(***************************************************************************)
InitRepeat ==
    /\ measurement \in SubsetsUpTo({Creatinine(-60, 50, "mg/dL"), Creatinine(-10, 50, "mg/dL"),
                                    Creatinine(3, 50, "mg/dL"), Creatinine(-10, 10, "mg/dL")},
                                   MaxMeasurements)
    /\ \E n \in 0..Min(1, MaxOtherProcedures) :
          procedure_occurrence =
              {Procedure(1, Surgery(0))} \cup {Procedure(i, Surgery(2)) : i \in 2..(n + 1)}
    /\ person \in {Born(40, 100, MALE_CONCEPT_ID), Born(18, 30, 45878463)}
    /\ all_surgical_concept_ids = {SURGICAL_PROC_CONCEPT_ID}
    /\ InitReference({{SurgicalConcept},
                      {Concept(SURGICAL_PROC_CONCEPT_ID, "CPT4", <<"3", "3", "0", "1", "6">>)},
                      {Concept(SURGICAL_PROC_CONCEPT_ID, "ICD10PCS", <<"0", "2", "1", "0", "0", "Z", "9">>)}},
                     ClassifyCategories, {EmptyDict}, {EmptyDict}, {<<>>})
    /\ ret = NoCall

NextRepeat ==
    \/ ClassifySurgicalProcedure
    \/ AcuteKidneyInjury

SpecRepeat == InitRepeat /\ [][NextRepeat]_vars

(***************************************************************************)
(* SpecPostop: get_postop_creatinine and acute_kidney_injury on histories  *)
(* with a baseline of 1.0 mg/dL, post-op draws on days 1, 2, 3, 7 and 8    *)
(* (one out of range, one in a foreign unit) and later surgeries 2, 6 and  *)
(* 7 days after the index procedure.                                       *)
(***************************************************************************)
InitPostop ==
    InitTables({Creatinine(-10, 10, "mg/dL"), Creatinine(1, 13, "mg/dL"),
                Creatinine(2, 1, "mg/dL"), Creatinine(3, 12, "mg/dL"),
                Creatinine(7, 30, "258797006"), Creatinine(8, 14, "mg/dL"),
                Creatinine(3, 10, "mmol/L")},
               {Surgery(0)},
               {Surgery(2), Surgery(6), Surgery(7)},
               {Born(40, 100, MALE_CONCEPT_ID)})

NextPostop ==
    \/ GetPostopCreatinine
    \/ AcuteKidneyInjury

SpecPostop == InitPostop /\ [][NextPostop]_vars

(***************************************************************************)
(* The claims.  What a claim says of the patient's records is stated here  *)
(* on the tables themselves, not through the operators above.              *)
(***************************************************************************)
IsCall(op) == ret.op = op /\ ~ret.raised

\* The time of the procedure a call was about.
TimeOf(proc_id) == (CHOOSE p \in ProcedureRows(proc_id) : TRUE).procedure_datetime

\* The creatinine readings (any unit) with after < time - index time <= upto,
\* in whole days: the pre-op window, both ends included, is -61 < d <= 0.
ReadingsIn(proc_id, after, upto) ==
    IF ProcedureRows(proc_id) = {} THEN {}
    ELSE {m \in measurement :
            /\ m.measurement_concept_id \in SERUM_CREATININE_CONCEPT_IDS
            /\ m.value_as_number # None
            /\ m.measurement_datetime - TimeOf(proc_id) > after
            /\ m.measurement_datetime - TimeOf(proc_id) <= upto}

\* The values that survive normalisation, in 1/8840 mg/dL: a value in umol/L
\* is divided by 88.4, then 0.2 <= value < 25 is required.
Surviving(readings) ==
    {Val(m.value_as_number) * 10 :
        m \in {x \in readings : /\ x.unit_source_value = "umol/L"
                                /\ Val(x.value_as_number) * 10 >= 1768
                                /\ Val(x.value_as_number) * 10 < 221000}}
    \cup
    {Val(m.value_as_number) * 884 :
        m \in {x \in readings : /\ x.unit_source_value \in {"mg/dL", "258797006"}
                                /\ Val(x.value_as_number) >= 2
                                /\ Val(x.value_as_number) < 250}}

Peak(readings) ==
    IF Surviving(readings) = {} THEN None
    ELSE Some(CHOOSE x \in Surviving(readings) : \A y \in Surviving(readings) : y <= x)

Baseline(proc_id) == Peak(ReadingsIn(proc_id, -61, 0))
Peak2(proc_id) == Peak(ReadingsIn(proc_id, 0, 2))
Peak7(proc_id) == Peak(ReadingsIn(proc_id, 0, 7))

\* The distinct surgical timestamps of the filtered history, and the draws.
SurgeryTimes == {p.procedure_datetime : p \in query_procedures(0)}
DrawTimes ==
    {m.measurement_datetime :
        m \in {x \in measurement :
                 /\ x.measurement_concept_id \in SERUM_CREATININE_CONCEPT_IDS
                 /\ x.unit_source_value \in {"mg/dL", "258797006", "umol/L"}
                 /\ x.value_as_number # None}}
InHistory(proc_id) == ProcedureRows(proc_id) \cap query_procedures(0) # {}

\* A next surgery n = min{s in S : s > t} exists, n - t <= 7 days, and no draw
\* c has t < c <= n.
Confounded(proc_id) ==
    /\ InHistory(proc_id)
    /\ LET t == TimeOf(proc_id)
           later == {s \in SurgeryTimes : s > t}
       IN  /\ later # {}
           /\ LET n == CHOOSE s \in later : \A u \in later : s <= u
              IN  /\ n - t <= 7
                  /\ ~\E c \in DrawTimes : t < c /\ c <= n

\* The four exclusion conditions of a call of acute_kidney_injury.
NoBaseline == Baseline(ret.proc_id) = None
AdvancedCKD ==
    /\ get_preop_egfr(ret.proc_id, ret.first) # None
    /\ Val(get_preop_egfr(ret.proc_id, ret.first)) < 15
NoPostopData == Peak7(ret.proc_id) = None
NoExclusion ==
    ~NoBaseline /\ ~AdvancedCKD /\ ~NoPostopData /\ ~Confounded(ret.proc_id)

\* C1: acute_kidney_injury returns the code of the first exclusion that holds
\* in the order NoBaseline (-3), AdvancedCKD (-2), NoPostopData (-1),
\* Confounded (-4), and a stage 0..3 only when none of the four holds.
C1_ExclusionOrder ==
    IsCall("acute_kidney_injury") =>
        /\ NoBaseline => ret.val = -3
        /\ ~NoBaseline /\ AdvancedCKD => ret.val = -2
        /\ ~NoBaseline /\ ~AdvancedCKD /\ NoPostopData => ret.val = -1
        /\ ~NoBaseline /\ ~AdvancedCKD /\ ~NoPostopData /\ Confounded(ret.proc_id)
              => ret.val = -4
        /\ ret.val \in 0..3 <=> NoExclusion

\* A call with no 7-day post-op value and a confounding close surgery
\* returned -1.
C1_Witness ==
    /\ IsCall("acute_kidney_injury")
    /\ ~NoBaseline /\ ~AdvancedCKD /\ NoPostopData /\ Confounded(ret.proc_id)
    /\ ret.val = -1

\* C2: with no exclusion, the stage is 3 iff p7 >= 3.0*b; 2 iff 2.0*b <= p7 <
\* 3.0*b; 1 iff 1.5*b <= p7 < 2.0*b, or p7 < 1.5*b and p2 exists and
\* p2 >= b + 0.3; 0 otherwise.
C2_Staging ==
    IsCall("acute_kidney_injury") /\ NoExclusion =>
        LET b == Val(Baseline(ret.proc_id))
            p7 == Val(Peak7(ret.proc_id))
            p2 == Peak2(ret.proc_id)
            rise == p2 # None /\ Val(p2) >= b + 2652
        IN  /\ ret.val = 3 <=> p7 >= 3 * b
            /\ ret.val = 2 <=> 2 * b <= p7 /\ p7 < 3 * b
            /\ ret.val = 1 <=> \/ 3 * b <= 2 * p7 /\ p7 < 2 * b
                               \/ 2 * p7 < 3 * b /\ rise
            /\ ret.val = 0 <=> 2 * p7 < 3 * b /\ ~rise

\* A 7-day peak of exactly 3.0 times the baseline was staged 3.
C2_Witness ==
    /\ IsCall("acute_kidney_injury") /\ NoExclusion
    /\ Val(Peak7(ret.proc_id)) = 3 * Val(Baseline(ret.proc_id))
    /\ ret.val = 3

\* C6: with no exclusion, a 7-day peak below 1.5*baseline and a 2-day peak of
\* exactly baseline + 0.3 give Stage1.
C6_AbsoluteRiseInclusive ==
    /\ IsCall("acute_kidney_injury") /\ NoExclusion
    /\ 2 * Val(Peak7(ret.proc_id)) < 3 * Val(Baseline(ret.proc_id))
    /\ Peak2(ret.proc_id) # None
    /\ Val(Peak2(ret.proc_id)) = Val(Baseline(ret.proc_id)) + 2652
    => ret.val = 1

\* Baseline 1.0, 7-day peak 1.4, 2-day peak 1.3 was staged 1.
C6_Witness ==
    /\ IsCall("acute_kidney_injury") /\ NoExclusion
    /\ Baseline(ret.proc_id) = Some(8840)
    /\ Peak7(ret.proc_id) = Some(12376)
    /\ Peak2(ret.proc_id) = Some(11492)
    /\ ret.val = 1

\* C3: for an index procedure of the filtered history, the detector returns
\* true iff a next surgery n = min{s in S : s > t} exists, n - t <= 7 days and
\* no draw lies in (t, n]; a gap of exactly 7 days is still evaluated.
C3_CloseSurgery ==
    IsCall("has_close_surgery") /\ InHistory(ret.proc_id) =>
        (ret.val <=> Confounded(ret.proc_id))

\* The next surgery is exactly 7 days after the index procedure, no draw lies
\* between them, and the detector returned true.
C3_Witness ==
    /\ IsCall("has_close_surgery") /\ InHistory(ret.proc_id)
    /\ LET t == TimeOf(ret.proc_id)
       IN  /\ t + 7 \in SurgeryTimes
           /\ ~\E s \in SurgeryTimes : t < s /\ s < t + 7
    /\ ret.val = TRUE

\* C4: in every window the output is the maximum of the readings that survive
\* (umol/L divided by 88.4 before the range filter, unknown units dropped,
\* values < 0.2 or >= 25 dropped, not clamped), or none when no reading
\* survives; it is never 0 nor the -1.0 placeholder.
C4_Normalization ==
    /\ IsCall("get_highest_preop_creatinine") =>
          /\ ret.val = Baseline(ret.proc_id)
          /\ ret.val \notin {Some(0), Some(Placeholder)}
    /\ IsCall("get_postop_creatinine") =>
          /\ ret.val.within_2_days = Peak2(ret.proc_id)
          /\ ret.val.within_7_days = Peak7(ret.proc_id)
          /\ ret.val.within_2_days \notin {Some(0), Some(Placeholder)}
          /\ ret.val.within_7_days \notin {Some(0), Some(Placeholder)}
    /\ IsCall("get_preop_egfr") =>
          ret.val = IF Baseline(ret.proc_id) = None THEN None
                    ELSE egfr_of(Val(Baseline(ret.proc_id)), ret.first)

\* The 2-day window held 2209.9 umol/L (24.9989 mg/dL, kept) next to readings
\* that are dropped, and the 2-day peak returned is that reading.
C4_Witness ==
    /\ IsCall("get_postop_creatinine")
    /\ ret.val.within_2_days = Some(220990)
    /\ Cardinality(ReadingsIn(ret.proc_id, 0, 2)) > 1

\* C5: for a procedure that exists, acute_kidney_injury returns one value of
\* {-4, -3, -2, -1, 0, 1, 2, 3} and never raises.
C5_ClosedResult ==
    ret.op = "acute_kidney_injury" /\ ProcedureRows(ret.proc_id) # {} =>
        ~ret.raised /\ ret.val \in {-4, -3, -2, -1, 0, 1, 2, 3}

\* A call for a patient with a baseline, an unknown eGFR (a child with no
\* height), post-op data and an empty surgical history returned a stage.
C5_Witness ==
    /\ IsCall("acute_kidney_injury")
    /\ ProcedureRows(ret.proc_id) # {}
    /\ query_procedures(ret.proc_id) = {}
    /\ Baseline(ret.proc_id) # None
    /\ get_preop_egfr(ret.proc_id, ret.first) = None
    /\ ret.val \in 0..3

\* What the call returns once steps 1 and 2 are passed.
AfterStep2 ==
    IF NoPostopData THEN {-1}
    ELSE IF Confounded(ret.proc_id) THEN {-4}
    ELSE 0..3

\* C7: with a baseline and an unknown eGFR, step 2 is skipped: the call does
\* not return -2 and returns what it returns with a known eGFR >= 15; it
\* returns -2 iff a baseline exists and the eGFR is known and < 15.
C7_UnknownEgfrSkipped ==
    IsCall("acute_kidney_injury") =>
        /\ ret.val = -2 <=> ~NoBaseline /\ AdvancedCKD
        /\ ~NoBaseline /\ get_preop_egfr(ret.proc_id, ret.first) = None =>
              /\ ret.val # -2
              /\ ret.val \in AfterStep2
              /\ ret.val = decide(get_highest_preop_creatinine(ret.proc_id), Some(15),
                                  get_postop_creatinine(ret.proc_id),
                                  Confounded(ret.proc_id))

\* A child with a baseline of 5.0 mg/dL and no height (eGFR unknown) was
\* staged, where the same child with a height has an eGFR of 12.
C7_Witness ==
    /\ IsCall("acute_kidney_injury")
    /\ Baseline(ret.proc_id) = Some(44200)
    /\ ret.first.age < 18 /\ ret.first.body_height = None
    /\ ret.val \in 0..3

\* The eGFR of a call of get_preop_egfr before the range test and the
\* rounding, as a rational; defined when a creatinine survives and the
\* patient is an adult or has a height.
EgfrDefined ==
    /\ Baseline(ret.proc_id) # None
    /\ ret.first.age >= 18 \/ ret.first.body_height # None
Unrounded ==
    IF ret.first.age >= 18
    THEN ckd_epi(Val(Baseline(ret.proc_id)), ret.first.age,
                 kappa(ret.first.gender_concept_id = MALE_CONCEPT_ID),
                 alpha_exponent(ret.first.gender_concept_id = MALE_CONCEPT_ID),
                 final_multiplier(ret.first.gender_concept_id = MALE_CONCEPT_ID))
    ELSE schwartz(Val(Baseline(ret.proc_id)), Val(ret.first.body_height))

\* C8 as stated: every value get_preop_egfr returns is an integer strictly
\* between 0 and 300.
C8_Original ==
    IsCall("get_preop_egfr") /\ ret.val # None =>
        0 < Val(ret.val) /\ Val(ret.val) < 300

\* C8 as amended: get_preop_egfr returns unknown when the unrounded eGFR is
\* <= 0 or >= 300, and otherwise the nearest integer to it, which lies in
\* 0..300, both ends included.
C8_RangeBeforeRounding ==
    IsCall("get_preop_egfr") /\ EgfrDefined =>
        LET q == Unrounded[1] \div Unrounded[2]
            r == Unrounded[1] % Unrounded[2]
        IN  IF Unrounded[1] <= 0 \/ q >= 300
            THEN ret.val = None
            ELSE /\ ret.val # None
                 /\ Val(ret.val) \in 0..300
                 /\ \/ Val(ret.val) = q /\ 2 * r <= Unrounded[2]
                    \/ Val(ret.val) = q + 1 /\ 2 * r >= Unrounded[2]

\* An unrounded eGFR of 299.838 (a child of 145.2 cm with 0.2 mg/dL) was
\* returned as 300.
C8_Witness ==
    /\ IsCall("get_preop_egfr") /\ EgfrDefined
    /\ Unrounded[1] \div Unrounded[2] = 299
    /\ ret.val = Some(300)

\* C9: for age >= 18 get_preop_egfr evaluates the CKD-EPI formula with
\* k = 0.9, a = -0.302, m = 1.0 for a male patient and k = 0.7, a = -0.241,
\* m = 1.012 for any other patient.
C9_Constants ==
    IsCall("get_preop_egfr") /\ Baseline(ret.proc_id) # None /\ ret.first.age >= 18 =>
        ret.val = egfr_result(
            IF ret.first.gender_concept_id = MALE_CONCEPT_ID
            THEN ckd_epi(Val(Baseline(ret.proc_id)), ret.first.age, 9, -302, 10000)
            ELSE ckd_epi(Val(Baseline(ret.proc_id)), ret.first.age, 7, -241, 10120))

\* C10: for age < 18 the result is unknown without a height and otherwise
\* the bedside formula on the maximum surviving pre-op creatinine; for
\* age >= 18 it is the adult formula, whatever the height; with no surviving
\* pre-op creatinine it is unknown whatever the age.
C10_AgeBranches ==
    IsCall("get_preop_egfr") =>
        IF Baseline(ret.proc_id) = None THEN ret.val = None
        ELSE IF ret.first.age < 18
        THEN IF ret.first.body_height = None THEN ret.val = None
             ELSE ret.val = egfr_result(schwartz(Val(Baseline(ret.proc_id)),
                                                 Val(ret.first.body_height)))
        ELSE ret.val = egfr_result(Unrounded)

\* A patient of exactly 18 with a height on record got the adult formula's
\* value, which differs from the bedside formula's.
C10_Witness ==
    /\ IsCall("get_preop_egfr")
    /\ Baseline(ret.proc_id) # None
    /\ ret.first.age = 18 /\ ret.first.body_height # None
    /\ ret.val = egfr_result(Unrounded)
    /\ ret.val # egfr_result(schwartz(Val(Baseline(ret.proc_id)),
                                      Val(ret.first.body_height)))

\* The subclasses (1 Open, 2 EP/Cath, 3 Transcatheter/Endovascular, 4 Other)
\* whose predicate a CPT code string satisfies.
Matches(cpt_code) ==
    {k \in 1..4 :
        \/ k = 1 /\ is_open_cardiac_surgical_cpt(cpt_code)
        \/ k = 2 /\ is_ep_cath_surgical_cpt(cpt_code)
        \/ k = 3 /\ is_transcatheter_endovascular_surgical_cpt(cpt_code)
        \/ k = 4 /\ is_other_cardiac_surgical_cpt(cpt_code)}

\* C11: cardiac_procedure_type returns the smallest subclass code whose
\* predicate the CPT code satisfies (Open before EP/Cath before
\* Transcatheter/Endovascular before Other), and 0 when it satisfies none.
C11_PriorityOrder ==
    IsCall("cardiac_procedure_type") =>
        /\ Matches(ret.cpt_code) = {} => ret.val = 0
        /\ Matches(ret.cpt_code) # {} =>
              /\ ret.val \in Matches(ret.cpt_code)
              /\ \A k \in Matches(ret.cpt_code) : ret.val <= k

\* "33016" satisfies the EP/Cath and the Other predicate and was given 2.
C11_Witness ==
    /\ IsCall("cardiac_procedure_type")
    /\ ret.cpt_code = <<"3", "3", "0", "1", "6">>
    /\ Matches(ret.cpt_code) = {2, 4}
    /\ ret.val = 2

\* C12: no CPT code string satisfies more than one of the four predicates.
C12_Disjoint ==
    IsCall("cardiac_procedure_type") => Cardinality(Matches(ret.cpt_code)) <= 1

\* C13: "33025" does not satisfy the Open predicate and satisfies the Other
\* predicate; cardiac_procedure_type gives it 4 and the procedure is
\* classified with cardiac subclass 'Other'.
C13_Code33025 ==
    /\ IsCall("cardiac_procedure_type") /\ ret.cpt_code = <<"3", "3", "0", "2", "5">> =>
          /\ 1 \notin Matches(ret.cpt_code)
          /\ 4 \in Matches(ret.cpt_code)
          /\ ret.val = 4
    /\ /\ IsCall("classify_surgical_procedure")
       /\ concept = {Concept(1, "CPT4", <<"3", "3", "0", "2", "5">>)}
       /\ ret.proc_id = 1
       => ret.val # None /\ Val(ret.val).cardiac_subclass = Some("Other")

\* The concept rows of the code of a procedure, and a call of
\* classify_surgical_procedure (returned or raised) on a procedure whose
\* code has the given vocabulary.
CodeRows(proc_id) ==
    {c \in concept :
        \E p \in procedure_occurrence :
            /\ p.procedure_occurrence_id = proc_id
            /\ p.procedure_concept_id = c.concept_id}
Classified(vocabulary) ==
    /\ ret.op = "classify_surgical_procedure"
    /\ \E c \in CodeRows(ret.proc_id) : c.vocabulary_id = vocabulary
CodeOfCall == (CHOOSE c \in CodeRows(ret.proc_id) : TRUE).concept_code

\* C14: for a CPT4 procedure the call does not raise, is_cardiac is true iff
\* cardiac_procedure_type of the code is nonzero, and procedural_category is
\* the CCS text of the code's CCS label, or the literal 'Does not map to any
\* procedure in range' when the code is absent from the CPT->CCS table or
\* its label is absent from the CCS label table.
C14_Cpt4Branch ==
    Classified("CPT4") =>
        /\ ~ret.raised
        /\ ret.val # None
        /\ Val(ret.val).is_cardiac = (cardiac_procedure_type(CodeOfCall) # 0)
        /\ Val(ret.val).procedural_category =
              IF /\ CodeOfCall \in DOMAIN cpt_to_ccs
                 /\ cpt_to_ccs[CodeOfCall] \in DOMAIN ccs_num_label_to_text
              THEN ccs_num_label_to_text[cpt_to_ccs[CodeOfCall]]
              ELSE "Does not map to any procedure in range"

\* A cardiac CPT4 code that the range file maps to a label without a text
\* got the literal, next to a label table that is not empty.
C14_Witness ==
    /\ Classified("CPT4") /\ ~ret.raised
    /\ CodeOfCall \in DOMAIN cpt_to_ccs
    /\ ccs_num_label_to_text # EmptyDict
    /\ cpt_to_ccs[CodeOfCall] \notin DOMAIN ccs_num_label_to_text
    /\ Val(ret.val).is_cardiac
    /\ Val(ret.val).procedural_category = "Does not map to any procedure in range"

\* C15: for an ICD10PCS procedure whose code is in the category table (and
\* whose entry in the cardiac-subclass table, if any, is a subclass code),
\* is_cardiac is true iff the category is one of CARD, CBGB, CBGC, HTP, PACE;
\* when cardiac, the subclass is the name of the code's entry in the
\* cardiac-subclass table, or 'Other' when it has none; procedural_category
\* is the code's entry in the category table.
C15_Icd10Branch ==
    /\ Classified("ICD10PCS")
    /\ CodeOfCall \in DOMAIN icd10_code_to_category
    /\ CodeOfCall \in DOMAIN cardiac_icd10_code_to_category_code =>
          cardiac_icd10_code_to_category_code[CodeOfCall] \in 1..4
    => /\ ~ret.raised
       /\ ret.val # None
       /\ Val(ret.val).is_cardiac =
             (icd10_code_to_category[CodeOfCall] \in {"CARD", "CBGB", "CBGC", "HTP", "PACE"})
       /\ Val(ret.val).procedural_category = icd10_code_to_category[CodeOfCall]
       /\ Val(ret.val).cardiac_subclass =
             IF ~Val(ret.val).is_cardiac THEN None
             ELSE IF CodeOfCall \in DOMAIN cardiac_icd10_code_to_category_code
             THEN Some(<<"Open", "EP/Cath", "Transcatheter/Endovascular", "Other">>
                           [cardiac_icd10_code_to_category_code[CodeOfCall]])
             ELSE Some("Other")

\* A cardiac ICD10PCS code that has no entry in a cardiac-subclass table that
\* is not empty got 'Other'.
C15_Witness ==
    /\ Classified("ICD10PCS") /\ ~ret.raised
    /\ cardiac_icd10_code_to_category_code # EmptyDict
    /\ CodeOfCall \notin DOMAIN cardiac_icd10_code_to_category_code
    /\ Val(ret.val).is_cardiac
    /\ Val(ret.val).cardiac_subclass = Some("Other")

\* C16: classify_surgical_procedure raises a key error for every ICD10PCS
\* procedure whose code is absent from the category table, whether or not
\* the code is in the cardiac-subclass table.
C16_AbsentCategoryRaises ==
    Classified("ICD10PCS") /\ CodeOfCall \notin DOMAIN icd10_code_to_category =>
        ret.raised /\ ret.val = "KeyError"

\* The call raised for a code that is in the cardiac-subclass table and
\* absent from a category table that is not empty.
C16_Witness ==
    /\ Classified("ICD10PCS")
    /\ icd10_code_to_category # EmptyDict
    /\ CodeOfCall \notin DOMAIN icd10_code_to_category
    /\ CodeOfCall \in DOMAIN cardiac_icd10_code_to_category_code
    /\ ret.raised

\* C17: classify_surgical_procedure returns None without raising, whatever
\* the reference tables hold, when the procedure id has no code record and
\* when the record's vocabulary is neither CPT4 nor ICD10PCS; for every
\* other input it returns a CategoryResult or raises.
C17_AbsentResult ==
    ret.op = "classify_surgical_procedure" =>
        IF \/ CodeRows(ret.proc_id) = {}
           \/ \E c \in CodeRows(ret.proc_id) : c.vocabulary_id \notin {"CPT4", "ICD10PCS"}
        THEN ~ret.raised /\ ret.val = None
        ELSE ret.raised \/ ret.val # None

\* A procedure coded in another vocabulary got None, next to reference
\* tables that hold entries.
C17_Witness ==
    /\ Classified("SNOMED")
    /\ icd10_code_to_category # EmptyDict /\ cpt_to_ccs # EmptyDict
    /\ ~ret.raised /\ ret.val = None

\* The grammar of a range string, read off the string itself: two ends
\* around one '-', each an optional capital letter, digits, an optional
\* capital letter.
Ends(row) ==
    LET r == row.cpt_code_range
        dash == CHOOSE i \in 1..Len(r) : r[i] = "-"
    IN  <<SubSeq(r, 1, dash - 1), SubSeq(r, dash + 1, Len(r))>>
OneDash(row) ==
    Cardinality({i \in 1..Len(row.cpt_code_range) : row.cpt_code_range[i] = "-"}) = 1
PrefixOf(e) == IF Len(e) >= 1 /\ e[1] \in CapitalChars THEN <<e[1]>> ELSE <<>>
SuffixOf(e) == IF Len(e) >= 2 /\ e[Len(e)] \in CapitalChars THEN <<e[Len(e)]>> ELSE <<>>
BodyOf(e) == SubSeq(e, Len(PrefixOf(e)) + 1, Len(e) - Len(SuffixOf(e)))
DifferentWidths(row) == Len(BodyOf(Ends(row)[1])) # Len(BodyOf(Ends(row)[2]))
BadMarkers(row) ==
    \/ PrefixOf(Ends(row)[1]) # PrefixOf(Ends(row)[2])
    \/ SuffixOf(Ends(row)[1]) # SuffixOf(Ends(row)[2])
    \/ ~isdigit(BodyOf(Ends(row)[1]))
    \/ ~isdigit(BodyOf(Ends(row)[2]))
WellFormed(row) == OneDash(row) /\ ~DifferentWidths(row) /\ ~BadMarkers(row)

\* key is prefix + n zero-padded to the width of the row's body + suffix.
IsKeyOf(key, row, n) ==
    /\ PrefixOf(key) = PrefixOf(Ends(row)[1])
    /\ SuffixOf(key) = SuffixOf(Ends(row)[1])
    /\ Len(BodyOf(key)) = Len(BodyOf(Ends(row)[1]))
    /\ isdigit(BodyOf(key))
    /\ int(BodyOf(key)) = n
NumbersOf(row) == int(BodyOf(Ends(row)[1]))..int(BodyOf(Ends(row)[2]))
Built == ret.op = "__init__" /\ ~ret.raised

\* C18 as stated: for every well-formed row the table holds exactly one key
\* for every integer of the row's range, mapped to the row's label, and no
\* other key.
C18_Original ==
    Built =>
        /\ \A i \in 1..Len(cpt_ccs_mapping) :
              WellFormed(cpt_ccs_mapping[i]) =>
                 \A n \in NumbersOf(cpt_ccs_mapping[i]) :
                    /\ Cardinality({k \in DOMAIN cpt_to_ccs :
                                       IsKeyOf(k, cpt_ccs_mapping[i], n)}) = 1
                    /\ \A k \in DOMAIN cpt_to_ccs :
                          IsKeyOf(k, cpt_ccs_mapping[i], n) =>
                             cpt_to_ccs[k] = cpt_ccs_mapping[i].ccs_numerical_label
        /\ (\A i \in 1..Len(cpt_ccs_mapping) : WellFormed(cpt_ccs_mapping[i])) =>
              \A k \in DOMAIN cpt_to_ccs :
                 \E i \in 1..Len(cpt_ccs_mapping) :
                    \E n \in NumbersOf(cpt_ccs_mapping[i]) : IsKeyOf(k, cpt_ccs_mapping[i], n)

\* C18 as amended: the same, the key being mapped to the label of the last
\* row of the file whose range produces that key (the row's own label when
\* no later row produces it).
C18_RangeExpansion ==
    Built =>
        /\ \A i \in 1..Len(cpt_ccs_mapping) :
              WellFormed(cpt_ccs_mapping[i]) =>
                 \A n \in NumbersOf(cpt_ccs_mapping[i]) :
                    /\ Cardinality({k \in DOMAIN cpt_to_ccs :
                                       IsKeyOf(k, cpt_ccs_mapping[i], n)}) = 1
                    /\ \A k \in DOMAIN cpt_to_ccs :
                          /\ IsKeyOf(k, cpt_ccs_mapping[i], n)
                          /\ \A j \in (i + 1)..Len(cpt_ccs_mapping) :
                                /\ WellFormed(cpt_ccs_mapping[j])
                                /\ \A m \in NumbersOf(cpt_ccs_mapping[j]) :
                                      ~IsKeyOf(k, cpt_ccs_mapping[j], m)
                          => cpt_to_ccs[k] = cpt_ccs_mapping[i].ccs_numerical_label
        /\ (\A i \in 1..Len(cpt_ccs_mapping) : WellFormed(cpt_ccs_mapping[i])) =>
              \A k \in DOMAIN cpt_to_ccs :
                 \E i \in 1..Len(cpt_ccs_mapping) :
                    \E n \in NumbersOf(cpt_ccs_mapping[i]) : IsKeyOf(k, cpt_ccs_mapping[i], n)

\* The file 'G0100-G0102' -> 2, '0001T-0003T' -> 3 was expanded to the six
\* keys G0100, G0101, G0102, 0001T, 0002T, 0003T.
C18_Witness ==
    /\ Built
    /\ Len(cpt_ccs_mapping) = 2
    /\ DOMAIN cpt_to_ccs =
          {<<"G", "0", "1", "0", "0">>, <<"G", "0", "1", "0", "1">>, <<"G", "0", "1", "0", "2">>,
           <<"0", "0", "0", "1", "T">>, <<"0", "0", "0", "2", "T">>, <<"0", "0", "0", "3", "T">>}
    /\ cpt_to_ccs[<<"G", "0", "1", "0", "1">>] = 2
    /\ cpt_to_ccs[<<"0", "0", "0", "2", "T">>] = 3

\* C19: construction fails for every range row whose two ends have numeric
\* bodies of different widths and for every row in which either end's
\* alphabetic prefix or suffix is malformed or differs between the ends.
C19_MalformedRowFails ==
    /\ ret.op = "__init__"
    /\ \E i \in 1..Len(cpt_ccs_mapping) :
          /\ OneDash(cpt_ccs_mapping[i])
          /\ DifferentWidths(cpt_ccs_mapping[i]) \/ BadMarkers(cpt_ccs_mapping[i])
    => ret.raised

\* C20: no call changes the reference tables or the surgical-concept set,
\* and a call of an operation with the procedure id of the call before it
\* gives the result that call gave.
C20_Idempotent ==
    [][/\ UNCHANGED <<icd10_code_to_category, cardiac_icd10_code_to_category_code,
                      ccs_num_label_to_text, cpt_to_ccs, all_surgical_concept_ids>>
       /\ ret'.op = ret.op /\ ret'.proc_id = ret.proc_id =>
             ret'.raised = ret.raised /\ ret'.val = ret.val]_vars

C22_AgeAtProcedure ==
    IsCall("get_preop_egfr") =>
        IF get_highest_preop_creatinine(ret.proc_id) = None THEN ret.val = None
        ELSE ret.val =
                 egfr_of(Val(get_highest_preop_creatinine(ret.proc_id)),
                         [age |-> AgeAt(TimeOf(ret.proc_id)),
                          gender_concept_id |-> person.gender_concept_id,
                          body_height |-> ret.first.body_height])

\* A code string that str.isdigit() rejects: empty, or with a character that
\* is not a digit.
NotOnlyDigits(cpt_code) ==
    cpt_code = <<>> \/ \E i \in 1..Len(cpt_code) : ~IsDigitChar(cpt_code[i])

\* C23: a CPT code string that is not made only of digits satisfies none of
\* the four predicates and cardiac_procedure_type gives it 0; a CPT4 procedure
\* with such a code is classified without an error, as non-cardiac and with
\* no cardiac subclass.
C23_NonDigitCode ==
    /\ ret.op = "cardiac_procedure_type" /\ NotOnlyDigits(ret.cpt_code) =>
          /\ ~ret.raised
          /\ Matches(ret.cpt_code) = {}
          /\ ret.val = 0
    /\ Classified("CPT4") /\ NotOnlyDigits(CodeOfCall) =>
          /\ ~ret.raised
          /\ ret.val # None
          /\ ~Val(ret.val).is_cardiac
          /\ Val(ret.val).cardiac_subclass = None

\* The CPT4 procedure with the code "0042T" was classified as non-cardiac.
C23_Witness ==
    /\ Classified("CPT4") /\ ~ret.raised
    /\ CodeOfCall = <<"0", "0", "4", "2", "T">>
    /\ ret.val # None
    /\ ~Val(ret.val).is_cardiac
    /\ Val(ret.val).cardiac_subclass = None

\* C24: the two peaks of get_postop_creatinine are nested: when within_2_days
\* is not none, within_7_days is not none and is at least within_2_days; and
\* whenever acute_kidney_injury returns a stage (0 to 3), the 7-day peak it
\* staged with exists and is at least the 2-day peak.
C24_NestedPeaks ==
    /\ IsCall("get_postop_creatinine") =>
          (ret.val.within_2_days # None =>
              /\ ret.val.within_7_days # None
              /\ Val(ret.val.within_7_days) >= Val(ret.val.within_2_days))
    /\ IsCall("acute_kidney_injury") /\ ret.val \in 0..3 =>
          LET postop_creatinine == get_postop_creatinine(ret.proc_id)
          IN  /\ postop_creatinine.within_7_days # None
              /\ postop_creatinine.within_2_days # None =>
                     Val(postop_creatinine.within_7_days) >=
                         Val(postop_creatinine.within_2_days)

\* get_postop_creatinine returned a 2-day peak and a strictly larger 7-day
\* peak, which comes from a reading after day 2.
C24_Witness ==
    /\ IsCall("get_postop_creatinine")
    /\ ret.val.within_2_days # None
    /\ ret.val.within_7_days # None
    /\ Val(ret.val.within_7_days) > Val(ret.val.within_2_days)

\* C25: acute_kidney_injury returns -4 only when a valid creatinine reading
\* exists in (t, t+7] and the next surgery is strictly earlier than every
\* creatinine draw after t, so that the next surgery is strictly less than 7
\* days after t; when the next surgery is exactly 7 days after t and no draw
\* lies in between, the result is never -4, and it is -1 unless the baseline
\* is missing or the eGFR is below 15.
C25_ConfoundedOnly ==
    IsCall("acute_kidney_injury") =>
        IF ProcedureRows(ret.proc_id) = {} THEN ret.val # -4
        ELSE LET t == TimeOf(ret.proc_id)
                 later == {s \in SurgeryTimes : s > t}
             IN  /\ ret.val = -4 =>
                        /\ Peak7(ret.proc_id) # None
                        /\ later # {}
                        /\ \A c \in DrawTimes : c > t => \E s \in later : s < c
                        /\ \E s \in later : s < t + 7
                 /\ /\ InHistory(ret.proc_id)
                    /\ t + 7 \in later
                    /\ ~\E s \in later : s < t + 7
                    /\ ~\E c \in DrawTimes : t < c /\ c <= t + 7
                    => /\ ret.val # -4
                       /\ ~NoBaseline /\ ~AdvancedCKD => ret.val = -1

\* -4 was returned: the next surgery is less than 7 days after the index
\* procedure and the first draw after it comes later, within the 7 days.
C25_Witness ==
    /\ IsCall("acute_kidney_injury")
    /\ ret.val = -4
    /\ Peak7(ret.proc_id) # None
    /\ \E s \in SurgeryTimes :
           /\ s > TimeOf(ret.proc_id)
           /\ s < TimeOf(ret.proc_id) + 7
           /\ \A c \in DrawTimes : c > TimeOf(ret.proc_id) => s < c

\* The next surgery is exactly 7 days after the index procedure, no draw lies
\* in between, and -1 was returned.
C25_WitnessSevenDays ==
    /\ IsCall("acute_kidney_injury") /\ InHistory(ret.proc_id)
    /\ TimeOf(ret.proc_id) + 7 \in SurgeryTimes
    /\ ~\E s \in SurgeryTimes : s > TimeOf(ret.proc_id) /\ s < TimeOf(ret.proc_id) + 7
    /\ ~\E c \in DrawTimes : TimeOf(ret.proc_id) < c /\ c <= TimeOf(ret.proc_id) + 7
    /\ ret.val = -1

\* C26: in every CategoryResult returned, cardiac_subclass is none iff
\* is_cardiac is false; when is_cardiac is true the subclass is one of 'Open',
\* 'EP/Cath', 'Transcatheter/Endovascular', 'Other'; and for a CPT4 code it is
\* the name of the first predicate the code satisfies, the one that made
\* is_cardiac true.
C26_SubclassIffCardiac ==
    IsCall("classify_surgical_procedure") /\ ret.val # None =>
        LET result == Val(ret.val)
        IN  /\ result.cardiac_subclass = None <=> ~result.is_cardiac
            /\ result.is_cardiac =>
                   result.cardiac_subclass \in
                       {Some("Open"), Some("EP/Cath"),
                        Some("Transcatheter/Endovascular"), Some("Other")}
            /\ result.is_cardiac /\ result.code_type = "CPT4" =>
                   \E k \in Matches(result.code) :
                       /\ \A j \in Matches(result.code) : k <= j
                       /\ result.cardiac_subclass =
                              Some(CARDIAC_SUBCLASS_CODE_TO_NAME[k])

\* A cardiac ICD10PCS procedure whose code has no entry in the
\* cardiac-subclass table was returned with the subclass 'Other'.
C26_Witness ==
    /\ IsCall("classify_surgical_procedure") /\ ret.val # None
    /\ Val(ret.val).code_type = "ICD10PCS"
    /\ Val(ret.val).is_cardiac
    /\ ~Has(cardiac_icd10_code_to_category_code, Val(ret.val).code)
    /\ Val(ret.val).cardiac_subclass = Some("Other")

====
